---- MODULE Spec2Model ----
(***************************************************************************)
(* State-machine model of the Convex backend of the subscription-management *)
(* application: the document tables of convex/schema.ts and the mutations   *)
(* of convex/subscriptionRequests.ts, convex/subscriptions.ts,              *)
(* convex/credentials.ts, convex/categories.ts, convex/currencies.ts and    *)
(* convex/seed.ts, with the helpers of convex/lib/helpers.ts,               *)
(* convex/lib/permissions.ts and convex/lib/encryption.ts.  Every mutation  *)
(* is one atomic step (a Convex mutation is a serializable transaction; a   *)
(* throw rolls every write back).  Of the browser, the model has the bulk   *)
(* import dialog (BulkImportDialog.tsx) and the decisions that were sent    *)
(* and are not yet answered.                                                *)
(***************************************************************************)
EXTENDS Integers, Sequences, FiniteSets, TLC

VARIABLES
  categories,     \* table categories:            id -> row
  currencies,     \* table currencies:            id -> row
  users,          \* table users:                 id -> row
  counters,       \* table counters:              id -> [name, value]
  subscriptions,  \* table subscriptions:         id -> row
  credentials,    \* table credentials:           id -> row
  requests,       \* table subscriptionRequests:  id -> row
  auditLogs,      \* table auditLogs:             id -> row
  rateLimits,     \* table rateLimits:            id -> [key, windowStart, count]
  nextId,         \* per table, the number of documents ever inserted (ids are never reused)
  scheduled,      \* the notification actions handed to ctx.scheduler.runAfter
  env,            \* process.env: ENCRYPTION_KEY, ADMIN_EMAIL
  today,          \* the calendar date of the clock, <<year, month, day>>
  now,            \* Date.now(), in minutes
  issued,         \* per counter name, the numbers generateReferenceNumber returned, in order,
                  \* and whether the counter row was absent at the first call
  ret,            \* the last call: operation, arguments, outcome
  inflight,       \* the decisions issued and not yet answered, and the answered ones
  importer,       \* the bulk import dialog of the admin's browser
  vault,          \* the Vault page of the admin's browser
  accepted        \* the function log: requester and time of each submit that returned

tables == <<categories, currencies, users, counters, subscriptions, credentials,
            requests, auditLogs, rateLimits, nextId, scheduled>>
clock == <<today, now>>
vars == <<categories, currencies, users, counters, subscriptions, credentials,
          requests, auditLogs, rateLimits, nextId, scheduled, env, today, now,
          issued, ret, inflight, importer, vault, accepted>>
\* the state kept outside the backend
clients == <<inflight, importer, vault, accepted>>

----------------------------------------------------------------------------
(* Bounds of the model *)

\* subscriptions inserted after the seed (create, bulkCreate, approve)
MaxNewSubs == 2
\* requests inserted after the seed (submit)
MaxNewReqs == 1
\* calendar dates the clock may still move through
MaxDateSteps == 2
\* audit log entries ever written
MaxAuditLogs == 2
\* credentials inserted after the seed's
MaxNewCreds == 1
\* requests accepted from one email while the clock moves by half windows
MaxRateReqs == 6
\* half windows the clock moves through
MaxTicks == 3

----------------------------------------------------------------------------
(* Strings *)

NONE == "<undefined>"

CharAt(s, i) == SubSeq(s, i, i)

CharsOf(s) == {CharAt(s, i) : i \in 1..Len(s)}

Letters == CharsOf("abcdefghijklmnopqrstuvwxyzABCDEFGHIJKLMNOPQRSTUVWXYZ")

Digits == CharsOf("0123456789")

AlphaNum == Letters \cup Digits

WhiteSpace == {" ", "\t", "\n"}

RECURSIVE TrimStart(_)
TrimStart(s) ==
  IF Len(s) > 0 /\ CharAt(s, 1) \in WhiteSpace
  THEN TrimStart(SubSeq(s, 2, Len(s)))
  ELSE s

RECURSIVE TrimEnd(_)
TrimEnd(s) ==
  IF Len(s) > 0 /\ CharAt(s, Len(s)) \in WhiteSpace
  THEN TrimEnd(SubSeq(s, 1, Len(s) - 1))
  ELSE s

Trim(s) == TrimEnd(TrimStart(s))

EscapeChar(c) ==
  CASE c = "<" -> "&lt;"
    [] c = ">" -> "&gt;"
    [] c = "\"" -> "&quot;"
    [] c = "'" -> "&#x27;"
    [] OTHER -> c

RECURSIVE EscapeAll(_)
EscapeAll(s) ==
  IF Len(s) = 0 THEN ""
  ELSE EscapeChar(CharAt(s, 1)) \o EscapeAll(SubSeq(s, 2, Len(s)))

\* sanitizeString: "" for an empty string, else the four replacements, then trim
sanitizeString(str) ==
  IF str = "" THEN "" ELSE Trim(EscapeAll(str))

\* validateStringLength: TRUE when it does not throw
validateStringLength(value, min, max) ==
  ~(value = "" \/ Len(value) < min \/ Len(value) > max)

----------------------------------------------------------------------------
(* Dates *)

IsLeap(y) == (y % 4 = 0 /\ y % 100 # 0) \/ y % 400 = 0

DaysInMonth(y, m) ==
  IF m = 2 THEN (IF IsLeap(y) THEN 29 ELSE 28)
  ELSE IF m \in {4, 6, 9, 11} THEN 30 ELSE 31

\* new Date(y, m - 1, d) for 1 <= d <= 31 and any month number m >= 1:
\* the month carries into the year, a day past the month's end into the next month
MakeDate(y, m, d) ==
  LET yy == y + ((m - 1) \div 12)
      mm == ((m - 1) % 12) + 1
      dim == DaysInMonth(yy, mm)
  IN IF d <= dim THEN <<yy, mm, d>>
     ELSE IF mm = 12 THEN <<yy + 1, 1, d - dim>>
     ELSE <<yy, mm + 1, d - dim>>

\* now.setMonth(now.getMonth() + k)
setMonth(date, k) == MakeDate(date[1], date[2] + k, date[3])

\* now.setFullYear(now.getFullYear() + k)
setFullYear(date, k) == MakeDate(date[1] + k, date[2], date[3])

Pad2(n) == IF n < 10 THEN "0" \o ToString(n) ELSE ToString(n)

\* date.toISOString().split("T")[0]
formatDateToISO(date) ==
  ToString(date[1]) \o "-" \o Pad2(date[2]) \o "-" \o Pad2(date[3])

----------------------------------------------------------------------------
(* Documents and queries *)

Insert(table, id, row) == table @@ (id :> row)

Delete(table, ids) == [i \in DOMAIN table \ ids |-> table[i]]

Patch(table, id, fields) == [table EXCEPT ![id] = fields @@ @]

\* the ids a table gives n documents inserted one after the other
NewIds(table, n) == [i \in 1..n |-> nextId[table] + i]

Bump(ids, table, n) == [ids EXCEPT ![table] = @ + n]

RECURSIVE InsertAll(_, _, _)
\* insert rows[i] under ids[i]
InsertAll(table, ids, rows) ==
  IF Len(rows) = 0 THEN table
  ELSE InsertAll(Insert(table, Head(ids), Head(rows)), Tail(ids), Tail(rows))

\* q.withIndex(field = value): the ids of the matching rows
ByField(table, field, value) == {i \in DOMAIN table : table[i][field] = value}

\* .unique() throws when more than one document matches
UniqueThrows(matches) == Cardinality(matches) > 1

TheOne(matches) == CHOOSE i \in matches : TRUE

----------------------------------------------------------------------------
(* convex/lib/permissions.ts *)

UpperCase == "ABCDEFGHIJKLMNOPQRSTUVWXYZ"

LowerCase == "abcdefghijklmnopqrstuvwxyz"

\* the lower-case letter of each upper-case letter
LowerOf ==
  LET at(c) == CHOOSE i \in 1..Len(UpperCase) : CharAt(UpperCase, i) = c
  IN [c \in CharsOf(UpperCase) |-> CharAt(LowerCase, at(c))]

LowerChar(c) == IF c \in DOMAIN LowerOf THEN LowerOf[c] ELSE c

RECURSIVE toLowerCase(_)
toLowerCase(s) ==
  IF Len(s) = 0 THEN ""
  ELSE LowerChar(CharAt(s, 1)) \o toLowerCase(SubSeq(s, 2, Len(s)))

\* a check that takes the caller's word for it
TrustCaller(email) == [ok |-> TRUE, error |-> NONE, email |-> email]

\* requireAdmin: [ok, error, email]; email is the stored user's email
requireAdmin(email) ==
  IF email = "" THEN [ok |-> FALSE, error |-> "Authentication required", email |-> NONE]
  ELSE LET m == ByField(users, "email", toLowerCase(email))
       IN IF UniqueThrows(m)
          THEN [ok |-> FALSE, error |-> "unique() returned more than one result", email |-> NONE]
          ELSE IF m = {}
          THEN [ok |-> FALSE, error |-> "Authentication required", email |-> NONE]
          ELSE IF users[TheOne(m)].role # "admin"
          THEN [ok |-> FALSE, error |-> "Admin access required", email |-> NONE]
          ELSE [ok |-> TRUE, error |-> NONE, email |-> users[TheOne(m)].email]

----------------------------------------------------------------------------
(* convex/lib/helpers.ts: generateReferenceNumber *)

\* nextValue.toString().padStart(3, "0")
padStart3(n) ==
  LET s == ToString(n)
  IN IF Len(s) < 3 THEN SubSeq("000", 1, 3 - Len(s)) \o s ELSE s

counterName(type, year) == type \o "-" \o ToString(year)

\* a counter that skips a number
SkipOne(value) == value + 2

\* the value a present counter row is patched to
NextCounterValue(value) == value + 1

\* the value a counter row is created with
FirstCounterValue == 1

formatReference(type, year, value) ==
  (IF type = "subscription" THEN "SUB" ELSE "REQ")
    \o "-" \o ToString(year) \o "-" \o padStart3(value)

\* generateReferenceNumber on the counters table cs, whose next free id is cid + 1:
\* [ok, counters, used (counter rows inserted), value, ref, name]
generateReferenceNumber(cs, cid, type, year) ==
  LET name == counterName(type, year)
      m == ByField(cs, "name", name)
  IN IF UniqueThrows(m)
     THEN [ok |-> FALSE, counters |-> cs, used |-> 0, value |-> 0, ref |-> NONE, name |-> name]
     ELSE IF m # {}
     THEN LET nextValue == NextCounterValue(cs[TheOne(m)].value)
          IN [ok |-> TRUE, counters |-> Patch(cs, TheOne(m), [value |-> nextValue]),
              used |-> 0, value |-> nextValue,
              ref |-> formatReference(type, year, nextValue), name |-> name]
     ELSE [ok |-> TRUE,
           counters |-> Insert(cs, cid + 1, [name |-> name, value |-> FirstCounterValue]),
           used |-> 1, value |-> FirstCounterValue,
           ref |-> formatReference(type, year, FirstCounterValue), name |-> name]

\* the log of issued numbers, with one more for counter name; absent: the
\* counter row did not exist at the first call under that name
Issue(log, gen) ==
  IF gen.name \in DOMAIN log
  THEN [log EXCEPT ![gen.name].values = Append(@, gen.value)]
  ELSE log @@ (gen.name :> [absent |-> gen.used = 1, values |-> <<gen.value>>])

----------------------------------------------------------------------------
(* convex/lib/encryption.ts.  A JavaScript string is a sequence of UTF-16   *)
(* code units; bytes are 0..255.                                            *)

\* the printable ASCII characters 32..95 and 97..126
AsciiLow == " !\"#$%&'()*+,-./0123456789:;<=>?@ABCDEFGHIJKLMNOPQRSTUVWXYZ[\\]^_"

AsciiHigh == "abcdefghijklmnopqrstuvwxyz{|}~"

\* the code unit of each printable ASCII character
CodeTable ==
  [c \in CharsOf(AsciiLow) \cup CharsOf(AsciiHigh) |->
     IF \E i \in 1..Len(AsciiLow) : CharAt(AsciiLow, i) = c
     THEN 31 + (CHOOSE i \in 1..Len(AsciiLow) : CharAt(AsciiLow, i) = c)
     ELSE 96 + (CHOOSE i \in 1..Len(AsciiHigh) : CharAt(AsciiHigh, i) = c)]

CodeOf(c) == CodeTable[c]

\* the code units of a string of printable ASCII characters
StrCodes(s) == [i \in 1..Len(s) |-> CodeOf(CharAt(s, i))]

RECURSIVE Xor(_, _)
\* a ^ b on non-negative integers
Xor(a, b) ==
  IF a = 0 /\ b = 0 THEN 0
  ELSE (((a % 2) + (b % 2)) % 2) + 2 * Xor(a \div 2, b \div 2)

IsHigh(u) == u >= 55296 /\ u <= 56319

IsLow(u) == u >= 56320 /\ u <= 57343

\* the UTF-8 bytes of one code point
Utf8Of(cp) ==
  IF cp < 128 THEN <<cp>>
  ELSE IF cp < 2048 THEN <<192 + (cp \div 64), 128 + (cp % 64)>>
  ELSE IF cp < 65536
  THEN <<224 + (cp \div 4096), 128 + ((cp \div 64) % 64), 128 + (cp % 64)>>
  ELSE <<240 + (cp \div 262144), 128 + ((cp \div 4096) % 64),
         128 + ((cp \div 64) % 64), 128 + (cp % 64)>>

RECURSIVE TextEncode(_)
\* new TextEncoder().encode(str): a surrogate pair is one code point, a lone
\* surrogate is encoded as U+FFFD
TextEncode(u) ==
  IF Len(u) = 0 THEN <<>>
  ELSE IF IsHigh(u[1]) /\ Len(u) >= 2 /\ IsLow(u[2])
  THEN Utf8Of(65536 + (u[1] - 55296) * 1024 + (u[2] - 56320))
         \o TextEncode(SubSeq(u, 3, Len(u)))
  ELSE IF IsHigh(u[1]) \/ IsLow(u[1])
  THEN Utf8Of(65533) \o TextEncode(Tail(u))
  ELSE Utf8Of(u[1]) \o TextEncode(Tail(u))

\* continuation bytes a lead byte asks for (0: not a lead byte of a longer form)
Needed(b) ==
  IF b >= 194 /\ b <= 223 THEN 1
  ELSE IF b >= 224 /\ b <= 239 THEN 2
  ELSE IF b >= 240 /\ b <= 244 THEN 3
  ELSE 0

\* the range of the first continuation byte after lead byte b
FirstLow(b) == IF b = 224 THEN 160 ELSE IF b = 240 THEN 144 ELSE 128

FirstHigh(b) == IF b = 237 THEN 159 ELSE IF b = 244 THEN 143 ELSE 191

RECURSIVE Continuations(_, _, _)
\* how many of the next bytes (at most n) continue the sequence led by lead
Continuations(b, lead, n) ==
  IF n = 0 \/ Len(b) = 0 THEN 0
  ELSE LET lo == IF lead = 0 THEN 128 ELSE FirstLow(lead)
           hi == IF lead = 0 THEN 191 ELSE FirstHigh(lead)
       IN IF b[1] >= lo /\ b[1] <= hi
          THEN 1 + Continuations(Tail(b), 0, n - 1)
          ELSE 0

\* the code units of a code point
Utf16Of(cp) ==
  IF cp < 65536 THEN <<cp>>
  ELSE <<55296 + ((cp - 65536) \div 1024), 56320 + ((cp - 65536) % 1024)>>

RECURSIVE Utf8Decode(_)
\* the UTF-8 decoder: an ill-formed sequence becomes U+FFFD
Utf8Decode(b) ==
  IF Len(b) = 0 THEN <<>>
  ELSE IF b[1] < 128 THEN <<b[1]>> \o Utf8Decode(Tail(b))
  ELSE LET n == Needed(b[1])
           k == Continuations(Tail(b), b[1], n)
       IN IF n = 0 \/ k < n
          THEN <<65533>> \o Utf8Decode(SubSeq(b, 2 + k, Len(b)))
          ELSE LET cp == IF n = 1 THEN (b[1] - 192) * 64 + (b[2] - 128)
                         ELSE IF n = 2
                         THEN (b[1] - 224) * 4096 + (b[2] - 128) * 64 + (b[3] - 128)
                         ELSE (b[1] - 240) * 262144 + (b[2] - 128) * 4096
                                + (b[3] - 128) * 64 + (b[4] - 128)
               IN Utf16Of(cp) \o Utf8Decode(SubSeq(b, 2 + n, Len(b)))

\* new TextDecoder().decode(bytes): a byte order mark at the start is dropped
\* (ignoreBOM is false), the rest is decoded
TextDecode(b) ==
  IF Len(b) >= 3 /\ SubSeq(b, 1, 3) = <<239, 187, 191>>
  THEN Utf8Decode(SubSeq(b, 4, Len(b)))
  ELSE Utf8Decode(b)

Base64Alphabet == "ABCDEFGHIJKLMNOPQRSTUVWXYZabcdefghijklmnopqrstuvwxyz0123456789+/"

B64Char(v) == CharAt(Base64Alphabet, v + 1)

\* the six-bit value of each character of the alphabet
B64Table ==
  [c \in CharsOf(Base64Alphabet) |->
     (CHOOSE i \in 1..64 : CharAt(Base64Alphabet, i) = c) - 1]

B64Value(c) == B64Table[c]

RECURSIVE btoa(_)
\* btoa(String.fromCharCode(...bytes))
btoa(b) ==
  IF Len(b) = 0 THEN ""
  ELSE IF Len(b) = 1
  THEN B64Char(b[1] \div 4) \o B64Char((b[1] % 4) * 16) \o "=="
  ELSE IF Len(b) = 2
  THEN B64Char(b[1] \div 4) \o B64Char((b[1] % 4) * 16 + (b[2] \div 16))
         \o B64Char((b[2] % 16) * 4) \o "="
  ELSE B64Char(b[1] \div 4) \o B64Char((b[1] % 4) * 16 + (b[2] \div 16))
         \o B64Char((b[2] % 16) * 4 + (b[3] \div 64)) \o B64Char(b[3] % 64)
         \o btoa(SubSeq(b, 4, Len(b)))

RECURSIVE atob(_)
\* Uint8Array.from(atob(s), c => c.charCodeAt(0)), for s produced by btoa
atob(s) ==
  IF Len(s) = 0 THEN <<>>
  ELSE LET v1 == B64Value(CharAt(s, 1))
           v2 == B64Value(CharAt(s, 2))
       IN IF CharAt(s, 3) = "=" THEN <<v1 * 4 + (v2 \div 16)>>
          ELSE LET v3 == B64Value(CharAt(s, 3))
               IN IF CharAt(s, 4) = "="
                  THEN <<v1 * 4 + (v2 \div 16), (v2 % 16) * 16 + (v3 \div 4)>>
                  ELSE <<v1 * 4 + (v2 \div 16), (v2 % 16) * 16 + (v3 \div 4),
                         (v3 % 4) * 64 + B64Value(CharAt(s, 4))>>
                         \o atob(SubSeq(s, 5, Len(s)))

KeyMinLength == 32

IvLength == 16

\* !key || key.length < 32
KeyRefused(key) == Len(key) = 0 \/ Len(key) < KeyMinLength

\* data[i] ^ keyBytes[i % keyBytes.length] ^ iv[i % iv.length], indices from 0
XorMask(data, keyBytes, iv) ==
  [i \in 1..Len(data) |->
     Xor(Xor(data[i], keyBytes[((i - 1) % Len(keyBytes)) + 1]),
         iv[((i - 1) % Len(iv)) + 1])]

\* encrypt(plaintext, key) with the IV crypto.getRandomValues produced; the
\* caller checks KeyRefused first (encrypt throws)
encrypt(plaintext, key, iv) ==
  btoa(iv \o XorMask(TextEncode(plaintext),
                     TextEncode(SubSeq(key, 1, KeyMinLength)), iv))

\* decrypt(ciphertext, key); the caller checks KeyRefused first
decrypt(ciphertext, key) ==
  LET combined == atob(ciphertext)
      iv == SubSeq(combined, 1, IvLength)
      encrypted == SubSeq(combined, IvLength + 1, Len(combined))
  IN TextDecode(XorMask(encrypted, TextEncode(SubSeq(key, 1, KeyMinLength)), iv))

----------------------------------------------------------------------------
(* Calls *)

\* a throw that leaves behind the global rate-limit row written before it
FailAfterCounting(op, args, msg) ==
  /\ ret' = [op |-> op, args |-> args, ok |-> FALSE, error |-> msg, value |-> NONE]
  /\ rateLimits' = Insert(rateLimits, nextId["rateLimits"] + 1,
                          [key |-> "global", windowStart |-> now, count |-> 1])
  /\ nextId' = [nextId EXCEPT !["rateLimits"] = @ + 1]
  /\ UNCHANGED <<categories, currencies, users, counters, subscriptions, credentials,
                 requests, auditLogs, scheduled, issued, env, clock>>

\* a throw that leaves behind the audit row inserted before it
FailAfterAudit(op, args, msg) ==
  /\ ret' = [op |-> op, args |-> args, ok |-> FALSE, error |-> msg, value |-> NONE]
  /\ auditLogs' = Insert(auditLogs, nextId["auditLogs"] + 1,
                         [action |-> "viewed", performedBy |-> "admin@company.com"])
  /\ nextId' = [nextId EXCEPT !["auditLogs"] = @ + 1]
  /\ UNCHANGED <<categories, currencies, users, counters, subscriptions, credentials,
                 requests, rateLimits, scheduled, issued, env, clock>>

\* a call that throws: its writes are rolled back
Fail(op, args, msg) ==
  /\ ret' = [op |-> op, args |-> args, ok |-> FALSE, error |-> msg, value |-> NONE]
  /\ UNCHANGED <<tables, issued, env, clock>>

Returned(op, args, value) ==
  [op |-> op, args |-> args, ok |-> TRUE, error |-> NONE, value |-> value]

NoArgs == [none |-> TRUE]

\* a call of encrypt, with the IV drawn in it
EncryptCall(plaintext, key, iv) ==
  IF KeyRefused(key)
  THEN Fail("encrypt", [plaintext |-> plaintext, key |-> key],
            "Encryption key must be at least 32 characters")
  ELSE /\ ret' = Returned("encrypt", [plaintext |-> plaintext, key |-> key],
                          encrypt(plaintext, key, iv))
       /\ UNCHANGED <<tables, issued, env, clock>>

\* a call of decrypt; from: the plaintext the ciphertext was made from and the
\* key it was made with (kept for the record, decrypt does not see them)
DecryptCall(ciphertext, key, from) ==
  IF KeyRefused(key)
  THEN Fail("decrypt", [ciphertext |-> ciphertext, key |-> key, from |-> from],
            "Encryption key must be at least 32 characters")
  ELSE /\ ret' = Returned("decrypt", [ciphertext |-> ciphertext, key |-> key, from |-> from],
                          decrypt(ciphertext, key))
       /\ UNCHANGED <<tables, issued, env, clock>>

TableNames == {"categories", "currencies", "users", "counters", "subscriptions",
               "credentials", "subscriptionRequests", "auditLogs", "rateLimits"}

----------------------------------------------------------------------------
(* convex/seed.ts *)

SeedCategories == <<
  [name |-> "Software & SaaS", description |-> "Software subscriptions and SaaS tools", color |-> "#3B82F6"],
  [name |-> "Cloud Infrastructure", description |-> "AWS, Azure, GCP and other cloud services", color |-> "#8B5CF6"],
  [name |-> "Marketing Tools", description |-> "Marketing automation and analytics", color |-> "#EC4899"],
  [name |-> "Communication", description |-> "Slack, Zoom, Email services", color |-> "#10B981"],
  [name |-> "Design & Creative", description |-> "Adobe, Figma and design tools", color |-> "#F59E0B"],
  [name |-> "Development Tools", description |-> "GitHub, JetBrains, IDEs", color |-> "#6366F1"] >>

\* exchangeRate is kept in tenths (83.5 is 835); the display symbol is left out
SeedCurrencies == <<
  [code |-> "INR", name |-> "Indian Rupee", exchangeRate |-> 10, isActive |-> TRUE],
  [code |-> "USD", name |-> "US Dollar", exchangeRate |-> 835, isActive |-> TRUE],
  [code |-> "EUR", name |-> "Euro", exchangeRate |-> 902, isActive |-> TRUE],
  [code |-> "GBP", name |-> "British Pound", exchangeRate |-> 1058, isActive |-> TRUE] >>

SeedSub(ref, name, description, provider, cat, cost, cur, cycle, renewal, days) ==
  [referenceNumber |-> ref, name |-> name, description |-> description,
   provider |-> provider, categoryId |-> cat, cost |-> cost, currencyId |-> cur,
   billingCycle |-> cycle, nextRenewalDate |-> renewal,
   paymentMethod |-> "credit_card", status |-> "active",
   notificationEnabled |-> TRUE, notificationDaysBefore |-> days]

\* cat and cur: the ids the seed's categories and currencies were given, in order
SeedSubscriptions(cat, cur) == <<
  SeedSub("SUB-2026-001", "Microsoft 365 Business", "Complete Office suite with Teams, SharePoint, and Exchange",
          "Microsoft", cat[4], 12500, cur[1], "yearly", "2026-03-15", 7),
  SeedSub("SUB-2026-002", "Slack Pro", "Team collaboration and messaging platform",
          "Slack Technologies", cat[4], 1500, cur[1], "monthly", "2026-02-10", 3),
  SeedSub("SUB-2026-003", "AWS Business Support", "Cloud infrastructure and services",
          "Amazon Web Services", cat[2], 45000, cur[1], "monthly", "2026-02-05", 7),
  SeedSub("SUB-2026-004", "Zoom Business", "Video conferencing and webinars",
          "Zoom Video Communications", cat[4], 1999, cur[1], "monthly", "2026-02-20", 3),
  SeedSub("SUB-2026-005", "Adobe Creative Cloud", "Design and creative tools for the team",
          "Adobe Inc.", cat[5], 55000, cur[1], "yearly", "2026-04-01", 14),
  SeedSub("SUB-2026-006", "GitHub Team", "Code repository and collaboration",
          "GitHub", cat[6], 400, cur[2], "monthly", "2026-02-15", 7),
  SeedSub("SUB-2026-007", "HubSpot Marketing", "Marketing automation and CRM",
          "HubSpot", cat[3], 800, cur[2], "monthly", "2026-02-08", 7),
  SeedSub("SUB-2026-008", "Notion Enterprise", "Workspace and documentation platform",
          "Notion Labs", cat[1], 8000, cur[1], "yearly", "2026-05-10", 14) >>

SeedSubCounter == 8

SeedReqCounter == 3

SeedPassword == "demo-password-change-me"

SeedCredentialCount == 5

\* sub: the ids of the seeded subscriptions; ivs: the IV of each encrypt call
SeedCredentials(sub, key, ivs) == <<
  [subscriptionId |-> sub[1], username |-> "admin@company.com",
   password |-> encrypt(StrCodes(SeedPassword), key, ivs[1]),
   notes |-> "Main admin account - CHANGE PASSWORD"],
  [subscriptionId |-> sub[2], username |-> "company_admin",
   password |-> encrypt(StrCodes(SeedPassword), key, ivs[2]),
   notes |-> "Workspace admin - CHANGE PASSWORD"],
  [subscriptionId |-> sub[3], username |-> "admin@company.com",
   password |-> encrypt(StrCodes(SeedPassword), key, ivs[3]),
   notes |-> "Root account - use MFA - CHANGE PASSWORD"],
  [subscriptionId |-> sub[4], username |-> "company.zoom",
   password |-> encrypt(StrCodes(SeedPassword), key, ivs[4]),
   notes |-> "CHANGE PASSWORD"],
  [subscriptionId |-> sub[5], username |-> "admin@company.com",
   password |-> encrypt(StrCodes(SeedPassword), key, ivs[5]),
   notes |-> "Creative Cloud for teams - CHANGE PASSWORD"] >>

SeedReq(ref, name, description, provider, cat, cost, cur, by, email, dept, why, status, notes, reviewer, at) ==
  [referenceNumber |-> ref, name |-> name, description |-> description,
   provider |-> provider, categoryId |-> cat, cost |-> cost, currencyId |-> cur,
   billingCycle |-> "monthly", requestedBy |-> by, requesterEmail |-> email,
   requesterDepartment |-> dept, justification |-> why, status |-> status,
   adminNotes |-> notes, reviewedBy |-> reviewer, reviewedAt |-> at]

SeedRequests(cat, cur) == <<
  SeedReq("REQ-2026-001", "Figma Professional", "Design collaboration tool for the product team",
          "Figma", cat[5], 450, cur[2], "John Designer", "john@company.com", "Design",
          "Need for collaborative design work with external stakeholders",
          "pending", NONE, NONE, NONE),
  SeedReq("REQ-2026-002", "Linear", "Issue tracking and project management",
          "Linear Orbit", cat[1], 800, cur[1], "Sarah PM", "sarah@company.com", "Product",
          "Better project tracking for engineering teams",
          "pending", NONE, NONE, NONE),
  SeedReq("REQ-2026-003", "Datadog", "Monitoring and analytics platform",
          "Datadog", cat[2], 1500, cur[2], "Mike DevOps", "mike@company.com", "Engineering",
          "Infrastructure monitoring and alerting",
          "approved", "Approved for Q1 budget", "Admin User", "2026-01-25T10:00:00Z") >>

DefaultAdminEmail == "admin@company.com"

\* getEncryptionKey of seed.ts: null when the key is unset or too short
SeedKeyUsable == ~KeyRefused(env.ENCRYPTION_KEY)

\* the IVs crypto.getRandomValues may produce (two of the 2^128)
IVs == {[i \in 1..IvLength |-> (7 * i) % 256], [i \in 1..IvLength |-> 255 - i]}

\* the IVs drawn during the seed
SeedIVs == {[i \in 1..IvLength |-> (7 * i) % 256]}

\* seedDatabase
Seed ==
  IF DOMAIN categories # {}
  THEN Fail("seedDatabase", NoArgs, "Database already seeded. Delete all data first to re-seed.")
  ELSE
    LET year == today[1]
        cat == NewIds("categories", Len(SeedCategories))
        cur == NewIds("currencies", Len(SeedCurrencies))
        subRows == SeedSubscriptions(cat, cur)
        sub == NewIds("subscriptions", Len(subRows))
        reqRows == SeedRequests(cat, cur)
        cnt == NewIds("counters", 2)
        counters1 == InsertAll(counters, cnt,
                       << [name |-> counterName("subscription", year), value |-> 0],
                          [name |-> counterName("request", year), value |-> 0] >>)
        subCounter == ByField(counters1, "name", counterName("subscription", year))
        reqCounter == ByField(counters1, "name", counterName("request", year))
    IN IF UniqueThrows(subCounter) \/ UniqueThrows(reqCounter)
       THEN Fail("seedDatabase", NoArgs, "unique() returned more than one result")
       ELSE \E ivs \in [1..SeedCredentialCount -> SeedIVs] :
         /\ categories' = InsertAll(categories, cat, SeedCategories)
         /\ currencies' = InsertAll(currencies, cur, SeedCurrencies)
         /\ users' = Insert(users, nextId["users"] + 1,
                        [email |-> IF env.ADMIN_EMAIL # "" THEN env.ADMIN_EMAIL
                                   ELSE DefaultAdminEmail,
                         name |-> "Admin User", role |-> "admin"])
         /\ counters' = Patch(Patch(counters1, TheOne(subCounter), [value |-> SeedSubCounter]),
                              TheOne(reqCounter), [value |-> SeedReqCounter])
         /\ subscriptions' = InsertAll(subscriptions, sub, subRows)
         /\ credentials' =
              IF SeedKeyUsable
              THEN InsertAll(credentials, NewIds("credentials", SeedCredentialCount),
                             SeedCredentials(sub, env.ENCRYPTION_KEY, ivs))
              ELSE credentials
         /\ requests' = InsertAll(requests, NewIds("subscriptionRequests", Len(reqRows)), reqRows)
         /\ nextId' = [t \in TableNames |->
              nextId[t] + CASE t = "categories" -> Len(SeedCategories)
                            [] t = "currencies" -> Len(SeedCurrencies)
                            [] t = "users" -> 1
                            [] t = "counters" -> 2
                            [] t = "subscriptions" -> Len(subRows)
                            [] t = "credentials" ->
                                 IF SeedKeyUsable THEN SeedCredentialCount ELSE 0
                            [] t = "subscriptionRequests" -> Len(reqRows)
                            [] OTHER -> 0]
         /\ ret' = Returned("seedDatabase", NoArgs,
                     [categories |-> Len(SeedCategories), currencies |-> Len(SeedCurrencies),
                      subscriptions |-> Len(subRows)])
         /\ UNCHANGED <<auditLogs, rateLimits, scheduled, issued, env, clock>>

----------------------------------------------------------------------------
(* The environment: the process environment and the clock *)

\* a key of 32 characters, one of 5, and none
ValidKey == StrCodes("0123456789abcdef0123456789abcdef")

ShortKey == StrCodes("short")

NoKey == <<>>

\* the k-th date of the model's calendar: seven months apart, from 2025-12-31
DateAt(k) == setMonth(<<2025, 12, 31>>, 7 * k)

EmptyTable == <<>>

\* no decision has been issued
NoCalls == <<>>

\* the dialog's useState values, which resetState restores; running is the
\* handleImport call waiting for bulkCreate (none, or its validRows, i and
\* allResults), toast the last toast shown
NewDialog ==
  [step |-> "upload", rawRows |-> <<>>, isImporting |-> FALSE, importResults |-> <<>>,
   running |-> <<>>, toast |-> NONE]

\* the Vault page's useState values: the revealed credential ids, the plaintext
\* shown for them, the countdown of each id; stale: a value the second effect
\* depends on was set since the effect last ran; toast: the last toast shown
NewVaultPage ==
  [revealedCredentials |-> {}, revealedData |-> <<>>, countdowns |-> <<>>,
   stale |-> FALSE, toast |-> NONE]

InitWith(keys, dates) ==
  /\ categories = EmptyTable
  /\ currencies = EmptyTable
  /\ users = EmptyTable
  /\ counters = EmptyTable
  /\ subscriptions = EmptyTable
  /\ credentials = EmptyTable
  /\ requests = EmptyTable
  /\ auditLogs = EmptyTable
  /\ rateLimits = EmptyTable
  /\ nextId = [t \in TableNames |-> 0]
  /\ scheduled = {}
  /\ env \in [ENCRYPTION_KEY : keys, ADMIN_EMAIL : {""}]
  /\ today \in dates
  /\ now = 0
  /\ issued = <<>>
  /\ ret = [op |-> "none", args |-> NoArgs, ok |-> TRUE, error |-> NONE, value |-> NONE]
  /\ inflight = NoCalls
  /\ importer = NewDialog
  /\ vault = NewVaultPage
  /\ accepted = <<>>

\* the clock moves to the next date of the calendar: more than a rate-limit
\* window passes
AdvanceDate ==
  /\ \E k \in 1..MaxDateSteps : today = DateAt(k - 1) /\ today' = DateAt(k)
  /\ now' = now + 1440
  /\ ret' = [op |-> "clock", args |-> NoArgs, ok |-> TRUE, error |-> NONE, value |-> today']
  /\ UNCHANGED <<tables, issued, env>>

----------------------------------------------------------------------------
(* convex/lib/helpers.ts: validation *)

AllIn(s, set) == \A i \in 1..Len(s) : CharAt(s, i) \in set

\* [a-zA-Z0-9](?:[a-zA-Z0-9-]*[a-zA-Z0-9])?
IsDomainLabel(s) ==
  /\ Len(s) >= 1
  /\ AllIn(s, AlphaNum \cup {"-"})
  /\ CharAt(s, 1) \in AlphaNum
  /\ CharAt(s, Len(s)) \in AlphaNum

\* [a-zA-Z0-9](?:[a-zA-Z0-9._+-]*[a-zA-Z0-9])?
IsLocalPart(s) ==
  /\ Len(s) >= 1
  /\ AllIn(s, AlphaNum \cup {".", "_", "+", "-"})
  /\ CharAt(s, 1) \in AlphaNum
  /\ CharAt(s, Len(s)) \in AlphaNum

\* label(\.label)*\.[a-zA-Z]{2,}
IsDomain(d) ==
  LET cuts == {0, Len(d) + 1} \cup {i \in 1..Len(d) : CharAt(d, i) = "."}
      segments == {sg \in cuts \X cuts :
                     sg[1] < sg[2] /\ ~\E c \in cuts : sg[1] < c /\ c < sg[2]}
      text(sg) == SubSeq(d, sg[1] + 1, sg[2] - 1)
  IN /\ Cardinality(cuts) >= 3
     /\ \A sg \in segments :
          IF sg[2] = Len(d) + 1
          THEN Len(text(sg)) >= 2 /\ AllIn(text(sg), Letters)
          ELSE IsDomainLabel(text(sg))

validateEmail(email) ==
  LET ats == {i \in 1..Len(email) : CharAt(email, i) = "@"}
      at == CHOOSE i \in ats : TRUE
  IN /\ email # ""
     /\ Len(email) <= 254
     /\ ~\E i \in 1..(Len(email) - 1) : SubSeq(email, i, i + 1) = ".."
     /\ Cardinality(ats) = 1
     /\ IsLocalPart(SubSeq(email, 1, at - 1))
     /\ IsDomain(SubSeq(email, at + 1, Len(email)))

\* validatePositiveNumber (costs and days are integers here)
validatePositiveNumber(value) == value >= 0

MaxCost == 100000000

\* validateCost: NONE, or the error it throws
validateCost(cost) ==
  IF ~validatePositiveNumber(cost) THEN "Cost must be a non-negative number"
  ELSE IF cost > MaxCost THEN "Cost exceeds maximum allowed value"
  ELSE NONE

\* validateAndSanitizeCommonFields: [error, name, description, provider]
validateAndSanitizeCommonFields(input, descriptionMin, descriptionMax) ==
  LET name == sanitizeString(input.name)
      description == sanitizeString(input.description)
      provider == IF input.provider \in {"", NONE} THEN NONE
                  ELSE sanitizeString(input.provider)
      error ==
        IF ~validateStringLength(name, 1, 200)
        THEN "Subscription name must be between 1 and 200 characters"
        ELSE IF descriptionMin > 0 /\ ~validateStringLength(description, descriptionMin, descriptionMax)
        THEN "Description must be between min and max characters"
        ELSE IF descriptionMin <= 0 /\ Len(description) > descriptionMax
        THEN "Description must not exceed max characters"
        ELSE IF provider \notin {"", NONE} /\ ~validateStringLength(provider, 1, 200)
        THEN "Provider must be between 1 and 200 characters"
        ELSE NONE
  IN [error |-> error, name |-> name, description |-> description, provider |-> provider]

----------------------------------------------------------------------------
(* convex/subscriptionRequests.ts *)

RATE_LIMIT_PER_EMAIL == 5

RATE_LIMIT_GLOBAL == 100

\* RATE_LIMIT_WINDOW_MS, one hour, in minutes
RATE_LIMIT_WINDOW == 60

\* the errors of the two rate-limit checks
GlobalLimitError == "Service is temporarily busy. Please try again later."

EmailLimitError == "Too many requests from this email. Please try again later."

\* new Date().toISOString(): the date, then the clock's minutes
toISOString == formatDateToISO(today) \o "T" \o ToString(now)

\* the row exists and its window has not expired
WindowOpen(limit, windowStart) ==
  limit # {} /\ rateLimits[TheOne(limit)].windowStart > windowStart

\* a limit that lets one more request through
LimitExceeded(limit, windowStart, max) ==
  WindowOpen(limit, windowStart) /\ rateLimits[TheOne(limit)].count > max

\* count >= limit within an open window
LimitReached(limit, windowStart, max) ==
  WindowOpen(limit, windowStart) /\ rateLimits[TheOne(limit)].count >= max

\* the rate-limit table after counting one request under key; id: a fresh id
CountRequest(rl, limit, windowStart, key, id) ==
  IF limit # {} /\ rl[TheOne(limit)].windowStart > windowStart
  THEN Patch(rl, TheOne(limit), [count |-> rl[TheOne(limit)].count + 1])
  ELSE IF limit # {}
  THEN Patch(rl, TheOne(limit), [windowStart |-> now, count |-> 1])
  ELSE Insert(rl, id, [key |-> key, windowStart |-> now, count |-> 1])

\* the validation of submit's arguments before any read: NONE, or the error
SubmitFieldError(args, common, requestedBy, requesterEmail, requesterDepartment, justification) ==
  IF common.error # NONE THEN common.error
  ELSE IF args.cost <= 0 THEN "Cost must be a positive number"
  ELSE IF validateCost(args.cost) # NONE THEN validateCost(args.cost)
  ELSE IF ~validateStringLength(requestedBy, 2, 100)
  THEN "Name must be between 2 and 100 characters"
  ELSE IF ~validateEmail(requesterEmail) THEN "Invalid email address format"
  ELSE IF Len(requesterEmail) > 254 THEN "Email address is too long"
  ELSE IF ~validateStringLength(requesterDepartment, 2, 100)
  THEN "Department must be between 2 and 100 characters"
  ELSE IF ~validateStringLength(justification, 20, 2000)
  THEN "Justification must be between 20 and 2000 characters"
  ELSE IF Len(common.name) + Len(common.description)
            + (IF common.provider = NONE THEN 0 ELSE Len(common.provider))
            + Len(requestedBy) + Len(requesterEmail)
            + Len(requesterDepartment) + Len(justification) > 5000
  THEN "Request data exceeds maximum allowed size"
  ELSE NONE

\* a handler without the try/catch: a throwing scheduler fails the mutation
Uncaught(schedulerUp) == ~schedulerUp

\* whether an error of ctx.scheduler.runAfter leaves the handler: the call
\* stands in a try block whose catch only logs
SchedulerErrorEscapes(schedulerUp) == FALSE

\* submit (public); schedulerUp: ctx.scheduler.runAfter does not throw
Submit(args, schedulerUp) ==
  LET common == validateAndSanitizeCommonFields(args, 10, 1000)
      requestedBy == sanitizeString(args.requestedBy)
      requesterEmail == Trim(toLowerCase(args.requesterEmail))
      requesterDepartment == sanitizeString(args.requesterDepartment)
      justification == sanitizeString(args.justification)
      fieldError == SubmitFieldError(args, common, requestedBy, requesterEmail,
                                     requesterDepartment, justification)
      windowStart == now - RATE_LIMIT_WINDOW
      emailKey == "email:" \o requesterEmail
      globalLimit == ByField(rateLimits, "key", "global")
      emailLimit == ByField(rateLimits, "key", emailKey)
      gen == generateReferenceNumber(counters, nextId["counters"], "request", today[1])
      newGlobal == IF globalLimit = {} THEN 1 ELSE 0
      newEmail == IF emailLimit = {} THEN 1 ELSE 0
      rl1 == CountRequest(rateLimits, globalLimit, windowStart, "global",
                          nextId["rateLimits"] + 1)
      rl2 == CountRequest(rl1, emailLimit, windowStart, emailKey,
                          nextId["rateLimits"] + newGlobal + 1)
      id == nextId["subscriptionRequests"] + 1
  IN IF fieldError # NONE THEN Fail("submit", args, fieldError)
     ELSE IF UniqueThrows(globalLimit) \/ UniqueThrows(emailLimit)
     THEN Fail("submit", args, "unique() returned more than one result")
     ELSE IF LimitReached(globalLimit, windowStart, RATE_LIMIT_GLOBAL)
     THEN Fail("submit", args, GlobalLimitError)
     ELSE IF LimitReached(emailLimit, windowStart, RATE_LIMIT_PER_EMAIL)
     THEN Fail("submit", args, EmailLimitError)
     ELSE IF args.categoryId \notin DOMAIN categories THEN Fail("submit", args, "Invalid category")
     ELSE IF args.currencyId \notin DOMAIN currencies THEN Fail("submit", args, "Invalid currency")
     ELSE IF ~currencies[args.currencyId].isActive
     THEN Fail("submit", args, "Selected currency is not active")
     ELSE IF ~gen.ok THEN Fail("submit", args, "unique() returned more than one result")
     ELSE IF common.provider = NONE
     THEN Fail("submit", args, "schema: provider is required")
     ELSE IF SchedulerErrorEscapes(schedulerUp)
     THEN Fail("submit", args, "scheduler.runAfter failed")
     ELSE
       /\ counters' = gen.counters
       /\ issued' = Issue(issued, gen)
       /\ rateLimits' = rl2
       /\ requests' = Insert(requests, id,
            [referenceNumber |-> gen.ref, name |-> common.name,
             description |-> common.description, provider |-> common.provider,
             categoryId |-> args.categoryId, cost |-> args.cost,
             currencyId |-> args.currencyId, billingCycle |-> args.billingCycle,
             requestedBy |-> requestedBy, requesterEmail |-> requesterEmail,
             requesterDepartment |-> requesterDepartment,
             justification |-> justification, status |-> "pending",
             adminNotes |-> NONE, reviewedBy |-> NONE, reviewedAt |-> NONE])
       /\ nextId' = [nextId EXCEPT !["counters"] = @ + gen.used,
                                   !["rateLimits"] = @ + newGlobal + newEmail,
                                   !["subscriptionRequests"] = @ + 1]
       /\ scheduled' = IF schedulerUp
                       THEN scheduled \cup {[fn |-> "sendNewRequestNotification",
                                             requestId |-> id, referenceNumber |-> gen.ref,
                                             status |-> "pending"]}
                       ELSE scheduled
       /\ ret' = Returned("submit", args, [id |-> id, referenceNumber |-> gen.ref])
       /\ UNCHANGED <<categories, currencies, users, subscriptions, credentials,
                      auditLogs, env, clock>>


\* the months the renewal date lies after the approval, by billing cycle
CycleMonths(billingCycle) ==
  CASE billingCycle = "monthly" -> 1
    [] billingCycle = "quarterly" -> 3
    [] billingCycle = "half-yearly" -> 6
    [] OTHER -> 1

\* approve's switch on request.billingCycle
NextRenewalDate(billingCycle, date) ==
  IF billingCycle = "yearly" THEN setFullYear(date, 1)
  ELSE setMonth(date, CycleMonths(billingCycle))

\* a guard that lets every request through
AnyStatus(request) == TRUE

\* a guard that lets approved requests through as well
NotRejected(request) == request.status # "rejected"

\* a guard that lets rejected requests through as well
NotApproved(request) == request.status # "approved"

\* approve's guard: the request is still to be decided
IsPending(request) == request.status = "pending"

\* a subscription that keeps the seed's payment method and is not yet active
PendingCardSubscription(request, ref, date) ==
  [referenceNumber |-> ref, name |-> request.name, description |-> request.description,
   provider |-> request.provider, categoryId |-> request.categoryId,
   cost |-> request.cost, currencyId |-> request.currencyId,
   billingCycle |-> request.billingCycle,
   nextRenewalDate |-> formatDateToISO(setMonth(date, 1)),
   paymentMethod |-> "credit_card", status |-> "pending",
   notificationEnabled |-> TRUE, notificationDaysBefore |-> 7]

\* the subscription approve creates from a request
ApprovedSubscription(request, ref, date) ==
  [referenceNumber |-> ref, name |-> request.name, description |-> request.description,
   provider |-> request.provider, categoryId |-> request.categoryId,
   cost |-> request.cost, currencyId |-> request.currencyId,
   billingCycle |-> request.billingCycle,
   nextRenewalDate |-> formatDateToISO(NextRenewalDate(request.billingCycle, date)),
   paymentMethod |-> "other", status |-> "active",
   notificationEnabled |-> TRUE, notificationDaysBefore |-> 7]

\* the fields approve and reject patch into the request
Review(status, adminNotes, admin) ==
  [status |-> status, adminNotes |-> adminNotes, reviewedBy |-> admin.email,
   reviewedAt |-> toISOString]

Notification(id, request, status) ==
  [fn |-> "sendRequestApprovalNotification", requestId |-> id,
   referenceNumber |-> request.referenceNumber, status |-> status]

\* approve (admin only)
Approve(args, schedulerUp) ==
  LET admin == requireAdmin(args.adminEmail)
      adminNotes == IF args.adminNotes \in {"", NONE} THEN NONE
                    ELSE sanitizeString(args.adminNotes)
      gen == generateReferenceNumber(counters, nextId["counters"], "subscription", today[1])
      subscriptionId == nextId["subscriptions"] + 1
  IN IF ~admin.ok THEN Fail("approve", args, admin.error)
     ELSE IF adminNotes \notin {"", NONE} /\ Len(adminNotes) > 1000
     THEN Fail("approve", args, "Admin notes must not exceed 1000 characters")
     ELSE IF args.id \notin DOMAIN requests THEN Fail("approve", args, "Request not found")
     ELSE IF ~IsPending(requests[args.id])
     THEN Fail("approve", args, "Can only approve pending requests")
     ELSE IF ~gen.ok THEN Fail("approve", args, "unique() returned more than one result")
     ELSE IF SchedulerErrorEscapes(schedulerUp)
     THEN Fail("approve", args, "scheduler.runAfter failed")
     ELSE
       /\ counters' = gen.counters
       /\ issued' = Issue(issued, gen)
       /\ subscriptions' = Insert(subscriptions, subscriptionId,
                                  ApprovedSubscription(requests[args.id], gen.ref, today))
       /\ requests' = Patch(requests, args.id, Review("approved", adminNotes, admin))
       /\ nextId' = [nextId EXCEPT !["counters"] = @ + gen.used,
                                   !["subscriptions"] = @ + 1]
       /\ scheduled' = IF schedulerUp
                       THEN scheduled \cup {Notification(args.id, requests[args.id], "approved")}
                       ELSE scheduled
       /\ ret' = Returned("approve", args,
                          [requestId |-> args.id, subscriptionId |-> subscriptionId])
       /\ UNCHANGED <<categories, currencies, users, credentials, auditLogs,
                      rateLimits, env, clock>>

\* reject (admin only)
Reject(args, schedulerUp) ==
  LET admin == requireAdmin(args.adminEmail)
      adminNotes == sanitizeString(args.adminNotes)
  IN IF ~admin.ok THEN Fail("reject", args, admin.error)
     ELSE IF adminNotes = "" \/ Len(adminNotes) < 10 \/ Len(adminNotes) > 1000
     THEN Fail("reject", args, "Rejection reason must be between 10 and 1000 characters")
     ELSE IF args.id \notin DOMAIN requests THEN Fail("reject", args, "Request not found")
     ELSE IF ~IsPending(requests[args.id])
     THEN Fail("reject", args, "Can only reject pending requests")
     ELSE IF SchedulerErrorEscapes(schedulerUp)
     THEN Fail("reject", args, "scheduler.runAfter failed")
     ELSE
       /\ requests' = Patch(requests, args.id, Review("rejected", adminNotes, admin))
       /\ scheduled' = IF schedulerUp
                       THEN scheduled \cup {Notification(args.id, requests[args.id], "rejected")}
                       ELSE scheduled
       /\ ret' = Returned("reject", args, args.id)
       /\ UNCHANGED <<categories, currencies, users, counters, subscriptions,
                      credentials, auditLogs, rateLimits, nextId, issued, env, clock>>

\* remove (admin only)
RemoveRequest(args) ==
  LET admin == requireAdmin(args.adminEmail)
  IN IF ~admin.ok THEN Fail("requests.remove", args, admin.error)
     ELSE IF args.id \notin DOMAIN requests
     THEN Fail("requests.remove", args, "Request not found")
     ELSE
       /\ requests' = Delete(requests, {args.id})
       /\ ret' = Returned("requests.remove", args, NONE)
       /\ UNCHANGED <<categories, currencies, users, counters, subscriptions,
                      credentials, auditLogs, rateLimits, nextId, scheduled,
                      issued, env, clock>>

----------------------------------------------------------------------------
(* convex/subscriptions.ts *)

IsNumber(s) == Len(s) >= 1 /\ AllIn(s, Digits)

\* the value of a string of at most two digits
TwoDigits(s) ==
  LET digit(c) == (CHOOSE i \in 1..10 : CharAt("0123456789", i) = c) - 1
  IN IF Len(s) = 2 THEN 10 * digit(CharAt(s, 1)) + digit(CharAt(s, 2)) ELSE 0

\* validateDateString, for the ISO form YYYY-MM-DD (new Date(s) is a date):
\* the other forms the JavaScript parser accepts are not among the inputs
validateDateString(s) ==
  /\ Len(s) = 10
  /\ IsNumber(SubSeq(s, 1, 4)) /\ CharAt(s, 5) = "-"
  /\ IsNumber(SubSeq(s, 6, 7)) /\ CharAt(s, 8) = "-"
  /\ IsNumber(SubSeq(s, 9, 10))
  /\ TwoDigits(SubSeq(s, 6, 7)) \in 1..12
  /\ TwoDigits(SubSeq(s, 9, 10)) \in 1..31

MaxNotificationDays == 365

\* validateNotificationDays: TRUE when it does not throw
validateNotificationDays(days) ==
  validatePositiveNumber(days) /\ days <= MaxNotificationDays

\* the validation create, update and bulkCreate share: NONE, or the error
SubscriptionFieldError(sub, common) ==
  IF common.error # NONE THEN common.error
  ELSE IF validateCost(sub.cost) # NONE THEN validateCost(sub.cost)
  ELSE IF ~validateDateString(sub.nextRenewalDate) THEN "Invalid renewal date format"
  ELSE IF ~validateNotificationDays(sub.notificationDaysBefore)
  THEN "Notification days must be between 0 and 365"
  ELSE NONE

\* the row create and bulkCreate insert
NewSubscription(sub, common, ref) ==
  [referenceNumber |-> ref, name |-> common.name, description |-> common.description,
   provider |-> IF common.provider = NONE THEN "" ELSE common.provider,
   categoryId |-> sub.categoryId, cost |-> sub.cost, currencyId |-> sub.currencyId,
   billingCycle |-> sub.billingCycle, nextRenewalDate |-> sub.nextRenewalDate,
   paymentMethod |-> sub.paymentMethod, status |-> sub.status,
   notificationEnabled |-> sub.notificationEnabled,
   notificationDaysBefore |-> sub.notificationDaysBefore]

\* create (admin only); args: adminEmail and sub, the subscription's fields
CreateSubscription(args) ==
  LET admin == requireAdmin(args.adminEmail)
      common == validateAndSanitizeCommonFields(args.sub, 0, 1000)
      fieldError == SubscriptionFieldError(args.sub, common)
      gen == generateReferenceNumber(counters, nextId["counters"], "subscription", today[1])
      id == nextId["subscriptions"] + 1
  IN IF ~admin.ok THEN Fail("subscriptions.create", args, admin.error)
     ELSE IF fieldError # NONE THEN Fail("subscriptions.create", args, fieldError)
     ELSE IF args.sub.categoryId \notin DOMAIN categories
     THEN Fail("subscriptions.create", args, "Invalid category")
     ELSE IF args.sub.currencyId \notin DOMAIN currencies
     THEN Fail("subscriptions.create", args, "Invalid currency")
     ELSE IF ~currencies[args.sub.currencyId].isActive
     THEN Fail("subscriptions.create", args, "Selected currency is not active")
     ELSE IF ~gen.ok
     THEN Fail("subscriptions.create", args, "unique() returned more than one result")
     ELSE
       /\ counters' = gen.counters
       /\ issued' = Issue(issued, gen)
       /\ subscriptions' = Insert(subscriptions, id, NewSubscription(args.sub, common, gen.ref))
       /\ nextId' = [nextId EXCEPT !["counters"] = @ + gen.used,
                                   !["subscriptions"] = @ + 1]
       /\ ret' = Returned("subscriptions.create", args, id)
       /\ UNCHANGED <<categories, currencies, users, credentials, requests,
                      auditLogs, rateLimits, scheduled, env, clock>>

\* update (admin only); args: adminEmail, id and sub, the new fields
UpdateSubscription(args) ==
  LET admin == requireAdmin(args.adminEmail)
      common == validateAndSanitizeCommonFields(args.sub, 0, 1000)
      fieldError == SubscriptionFieldError(args.sub, common)
  IN IF ~admin.ok THEN Fail("subscriptions.update", args, admin.error)
     ELSE IF fieldError # NONE THEN Fail("subscriptions.update", args, fieldError)
     ELSE IF args.id \notin DOMAIN subscriptions
     THEN Fail("subscriptions.update", args, "Subscription not found")
     ELSE IF args.sub.categoryId \notin DOMAIN categories
     THEN Fail("subscriptions.update", args, "Invalid category")
     ELSE IF args.sub.currencyId \notin DOMAIN currencies
     THEN Fail("subscriptions.update", args, "Invalid currency")
     ELSE IF common.provider = NONE
     THEN Fail("subscriptions.update", args, "schema: provider is required")
     ELSE
       /\ subscriptions' = Patch(subscriptions, args.id,
            [name |-> common.name, description |-> common.description,
             provider |-> common.provider, categoryId |-> args.sub.categoryId,
             cost |-> args.sub.cost, currencyId |-> args.sub.currencyId,
             billingCycle |-> args.sub.billingCycle,
             nextRenewalDate |-> args.sub.nextRenewalDate,
             paymentMethod |-> args.sub.paymentMethod, status |-> args.sub.status,
             notificationEnabled |-> args.sub.notificationEnabled,
             notificationDaysBefore |-> args.sub.notificationDaysBefore])
       /\ ret' = Returned("subscriptions.update", args, args.id)
       /\ UNCHANGED <<categories, currencies, users, counters, credentials, requests,
                      auditLogs, rateLimits, nextId, scheduled, issued, env, clock>>

\* a limit no list of the model reaches
NoBulkLimit == 1000

MaxBulkRows == 100

\* one turn of bulkCreate's loop, on st = [counters, cid, subscriptions, sid,
\* issued, results]: the row is validated, numbered and inserted, or its error
\* is caught and recorded
BulkRow(st, sub, index) ==
  LET common == validateAndSanitizeCommonFields(sub, 0, 1000)
      fieldError == SubscriptionFieldError(sub, common)
      gen == generateReferenceNumber(st.counters, st.cid, "subscription", today[1])
      error ==
        IF fieldError # NONE THEN fieldError
        ELSE IF sub.categoryId \notin DOMAIN categories THEN "Invalid category"
        ELSE IF sub.currencyId \notin DOMAIN currencies
                  \/ ~currencies[sub.currencyId].isActive
        THEN "Invalid or inactive currency"
        ELSE IF ~gen.ok THEN "unique() returned more than one result"
        ELSE NONE
  IN IF error # NONE
     THEN [st EXCEPT !.results = Append(@, [index |-> index, success |-> FALSE,
                                            referenceNumber |-> NONE, error |-> error])]
     ELSE [counters |-> gen.counters, cid |-> st.cid + gen.used,
           subscriptions |-> Insert(st.subscriptions, st.sid + 1,
                                    NewSubscription(sub, common, gen.ref)),
           sid |-> st.sid + 1,
           issued |-> Issue(st.issued, gen),
           results |-> Append(st.results, [index |-> index, success |-> TRUE,
                                           referenceNumber |-> gen.ref, error |-> NONE])]

RECURSIVE BulkRun(_, _, _, _)
\* the turns of the loop for the rows i to j, in order: those of the second
\* half start from the state mid the first half ends in
BulkRun(st, rows, i, j) ==
  IF i > j THEN st
  ELSE IF i = j THEN BulkRow(st, rows[i], i - 1)
  ELSE LET half == (i + j) \div 2
       IN TheOne({BulkRun(mid, rows, half + 1, j) : mid \in {BulkRun(st, rows, i, half)}})

\* the loop from row i on
BulkLoop(st, rows, i) == BulkRun(st, rows, i, Len(rows))

\* bulkCreate (admin only); args: adminEmail and subscriptions, the rows
BulkCreate(args) ==
  LET admin == requireAdmin(args.adminEmail)
      st == BulkLoop([counters |-> counters, cid |-> nextId["counters"],
                      subscriptions |-> subscriptions, sid |-> nextId["subscriptions"],
                      issued |-> issued, results |-> <<>>],
                     args.subscriptions, 1)
      succeeded == Cardinality({i \in 1..Len(st.results) : st.results[i].success})
  IN IF ~admin.ok THEN Fail("subscriptions.bulkCreate", args, admin.error)
     ELSE IF Len(args.subscriptions) > MaxBulkRows
     THEN Fail("subscriptions.bulkCreate", args, "Maximum 100 subscriptions per bulk import")
     ELSE
       /\ counters' = st.counters
       /\ issued' = st.issued
       /\ subscriptions' = st.subscriptions
       /\ nextId' = [nextId EXCEPT !["counters"] = st.cid, !["subscriptions"] = st.sid]
       /\ ret' = Returned("subscriptions.bulkCreate", args,
                          [total |-> Len(args.subscriptions), succeeded |-> succeeded,
                           failed |-> Len(st.results) - succeeded, results |-> st.results])
       /\ UNCHANGED <<categories, currencies, users, credentials, requests,
                      auditLogs, rateLimits, scheduled, env, clock>>

\* remove (admin only): the subscription, its credentials and its audit logs
RemoveSubscription(args) ==
  LET admin == requireAdmin(args.adminEmail)
  IN IF ~admin.ok THEN Fail("subscriptions.remove", args, admin.error)
     ELSE IF args.id \notin DOMAIN subscriptions
     THEN Fail("subscriptions.remove", args, "Subscription not found")
     ELSE
       /\ credentials' = Delete(credentials, ByField(credentials, "subscriptionId", args.id))
       /\ auditLogs' = Delete(auditLogs, ByField(auditLogs, "subscriptionId", args.id))
       /\ subscriptions' = Delete(subscriptions, {args.id})
       /\ ret' = Returned("subscriptions.remove", args, NONE)
       /\ UNCHANGED <<categories, currencies, users, counters, requests, rateLimits,
                      nextId, scheduled, issued, env, clock>>

----------------------------------------------------------------------------
(* convex/credentials.ts *)

\* getEncryptionKey: NONE, or the error it throws
EncryptionKeyError ==
  IF Len(env.ENCRYPTION_KEY) = 0 THEN "ENCRYPTION_KEY environment variable is required."
  ELSE IF Len(env.ENCRYPTION_KEY) < KeyMinLength
  THEN "ENCRYPTION_KEY must be at least 32 characters"
  ELSE NONE

\* the audit row reveal and update insert
AuditEntry(subscriptionId, action, admin) ==
  [subscriptionId |-> subscriptionId,
   subscriptionName |-> subscriptions[subscriptionId].name,
   action |-> action, performedBy |-> admin.email, performedAt |-> toISOString]

\* a reveal that leaves no trace
NoAudit(logs, id, args, admin) == logs

\* the audit log after reveal's insert
RevealAudit(logs, id, args, admin) ==
  Insert(logs, id, AuditEntry(args.subscriptionId, args.action, admin))

\* reveal (admin only): the audit row is inserted, then the password decrypted
Reveal(args) ==
  LET admin == requireAdmin(args.adminEmail)
      credential == ByField(credentials, "subscriptionId", args.subscriptionId)
  IN IF ~admin.ok THEN Fail("credentials.reveal", args, admin.error)
     ELSE IF UniqueThrows(credential)
     THEN Fail("credentials.reveal", args, "unique() returned more than one result")
     ELSE IF args.subscriptionId \notin DOMAIN subscriptions
     THEN Fail("credentials.reveal", args, "Subscription not found")
     ELSE IF credential = {}
     THEN Fail("credentials.reveal", args, "No credentials found for this subscription")
     ELSE IF EncryptionKeyError # NONE
     THEN Fail("credentials.reveal", args, EncryptionKeyError)
     ELSE
       /\ auditLogs' = RevealAudit(auditLogs, nextId["auditLogs"] + 1, args, admin)
       /\ nextId' = Bump(nextId, "auditLogs", 1)
       /\ ret' = Returned("credentials.reveal", args,
                   [username |-> credentials[TheOne(credential)].username,
                    password |-> decrypt(credentials[TheOne(credential)].password,
                                         env.ENCRYPTION_KEY)])
       /\ UNCHANGED <<categories, currencies, users, counters, subscriptions,
                      credentials, requests, rateLimits, scheduled, issued, env, clock>>

\* the validation create and update share: NONE, or the error
CredentialFieldError(username, password, notes) ==
  IF username = "" \/ Len(username) < 1 \/ Len(username) > 200
  THEN "Username must be between 1 and 200 characters"
  ELSE IF Len(password) < 1 \/ Len(password) > 500
  THEN "Password must be between 1 and 500 characters"
  ELSE IF notes \notin {"", NONE} /\ Len(notes) > 500
  THEN "Notes must not exceed 500 characters"
  ELSE NONE

\* a check that never finds a credential
NeverHasCredential(existing) == FALSE

\* create's check that the subscription has no credential yet
HasCredential(existing) == existing # {}

\* create (admin only); iv: the IV encrypt draws
CreateCredential(args, iv) ==
  LET admin == requireAdmin(args.adminEmail)
      username == sanitizeString(args.username)
      notes == IF args.notes \in {"", NONE} THEN NONE ELSE sanitizeString(args.notes)
      fieldError == CredentialFieldError(username, args.password, notes)
      existing == ByField(credentials, "subscriptionId", args.subscriptionId)
      id == nextId["credentials"] + 1
  IN IF ~admin.ok THEN Fail("credentials.create", args, admin.error)
     ELSE IF fieldError # NONE THEN Fail("credentials.create", args, fieldError)
     ELSE IF UniqueThrows(existing)
     THEN Fail("credentials.create", args, "unique() returned more than one result")
     ELSE IF args.subscriptionId \notin DOMAIN subscriptions
     THEN Fail("credentials.create", args, "Subscription not found")
     ELSE IF HasCredential(existing)
     THEN Fail("credentials.create", args, "Credentials already exist for this subscription")
     ELSE IF EncryptionKeyError # NONE
     THEN Fail("credentials.create", args, EncryptionKeyError)
     ELSE
       /\ credentials' = Insert(credentials, id,
            [subscriptionId |-> args.subscriptionId, username |-> username,
             password |-> encrypt(args.password, env.ENCRYPTION_KEY, iv),
             notes |-> notes])
       /\ nextId' = Bump(nextId, "credentials", 1)
       /\ ret' = Returned("credentials.create", args, id)
       /\ UNCHANGED <<categories, currencies, users, counters, subscriptions, requests,
                      auditLogs, rateLimits, scheduled, issued, env, clock>>

\* update (admin only); iv: the IV encrypt draws
UpdateCredential(args, iv) ==
  LET admin == requireAdmin(args.adminEmail)
      username == sanitizeString(args.username)
      notes == IF args.notes \in {"", NONE} THEN NONE ELSE sanitizeString(args.notes)
      fieldError == CredentialFieldError(username, args.password, notes)
  IN IF ~admin.ok THEN Fail("credentials.update", args, admin.error)
     ELSE IF fieldError # NONE THEN Fail("credentials.update", args, fieldError)
     ELSE IF args.id \notin DOMAIN credentials
     THEN Fail("credentials.update", args, "Credential not found")
     ELSE IF credentials[args.id].subscriptionId \notin DOMAIN subscriptions
     THEN Fail("credentials.update", args, "Associated subscription not found")
     ELSE IF EncryptionKeyError # NONE
     THEN Fail("credentials.update", args, EncryptionKeyError)
     ELSE
       /\ auditLogs' = Insert(auditLogs, nextId["auditLogs"] + 1,
                              AuditEntry(credentials[args.id].subscriptionId, "updated", admin))
       /\ credentials' = Patch(credentials, args.id,
            [username |-> username,
             password |-> encrypt(args.password, env.ENCRYPTION_KEY, iv),
             notes |-> notes])
       /\ nextId' = Bump(nextId, "auditLogs", 1)
       /\ ret' = Returned("credentials.update", args, args.id)
       /\ UNCHANGED <<categories, currencies, users, counters, subscriptions, requests,
                      rateLimits, scheduled, issued, env, clock>>

\* remove (admin only)
RemoveCredential(args) ==
  LET admin == requireAdmin(args.adminEmail)
  IN IF ~admin.ok THEN Fail("credentials.remove", args, admin.error)
     ELSE IF args.id \notin DOMAIN credentials
     THEN Fail("credentials.remove", args, "Credential not found")
     ELSE
       /\ credentials' = Delete(credentials, {args.id})
       /\ ret' = Returned("credentials.remove", args, NONE)
       /\ UNCHANGED <<categories, currencies, users, counters, subscriptions, requests,
                      auditLogs, rateLimits, nextId, scheduled, issued, env, clock>>

\* npx convex env set ENCRYPTION_KEY: the deployment's key is set or unset
SetEncryptionKey(key) ==
  /\ env.ENCRYPTION_KEY # key
  /\ env' = [env EXCEPT !.ENCRYPTION_KEY = key]
  /\ ret' = [op |-> "env", args |-> NoArgs, ok |-> TRUE, error |-> NONE, value |-> NONE]
  /\ UNCHANGED <<tables, issued, clock>>

----------------------------------------------------------------------------
(* convex/categories.ts *)

\* validateHexColor: # followed by three or six hexadecimal digits
validateHexColor(color) ==
  /\ Len(color) \in {4, 7}
  /\ CharAt(color, 1) = "#"
  /\ AllIn(SubSeq(color, 2, Len(color)), Digits \cup CharsOf("abcdefABCDEF"))

\* the checks create and update share: NONE, or the error; id is the category
\* updated, 0 for a new one
CategoryFieldError(id, name, description, color) ==
  IF Len(name) < 1 \/ Len(name) > 100
  THEN "Category name must be between 1 and 100 characters"
  ELSE IF Len(description) > 500 THEN "Description must not exceed 500 characters"
  ELSE IF ~validateHexColor(color)
  THEN "Invalid color format. Use hex format (e.g., #3B82F6)"
  ELSE IF \E c \in DOMAIN categories \ {id} :
            toLowerCase(categories[c].name) = toLowerCase(name)
  THEN "A category with this name already exists"
  ELSE NONE

\* create (admin only)
CreateCategory(args) ==
  LET admin == requireAdmin(args.adminEmail)
      name == sanitizeString(args.name)
      description == sanitizeString(args.description)
      error == CategoryFieldError(0, name, description, args.color)
      id == nextId["categories"] + 1
  IN IF ~admin.ok THEN Fail("categories.create", args, admin.error)
     ELSE IF error # NONE THEN Fail("categories.create", args, error)
     ELSE
       /\ categories' = Insert(categories, id, [name |-> name, description |-> description,
                                                color |-> args.color])
       /\ nextId' = [nextId EXCEPT !["categories"] = @ + 1]
       /\ ret' = Returned("categories.create", args, id)
       /\ UNCHANGED <<currencies, users, counters, subscriptions, credentials, requests,
                      auditLogs, rateLimits, scheduled, issued, env, clock>>

\* update (admin only)
UpdateCategory(args) ==
  LET admin == requireAdmin(args.adminEmail)
      name == sanitizeString(args.name)
      description == sanitizeString(args.description)
      error == CategoryFieldError(args.id, name, description, args.color)
  IN IF ~admin.ok THEN Fail("categories.update", args, admin.error)
     ELSE IF args.id \notin DOMAIN categories
     THEN Fail("categories.update", args, "Category not found")
     ELSE IF error # NONE THEN Fail("categories.update", args, error)
     ELSE
       /\ categories' = Patch(categories, args.id,
                              [name |-> name, description |-> description,
                               color |-> args.color])
       /\ ret' = Returned("categories.update", args, args.id)
       /\ UNCHANGED <<currencies, users, counters, subscriptions, credentials, requests,
                      auditLogs, rateLimits, nextId, scheduled, issued, env, clock>>

\* remove (admin only)
RemoveCategory(args) ==
  LET admin == requireAdmin(args.adminEmail)
  IN IF ~admin.ok THEN Fail("categories.remove", args, admin.error)
     ELSE IF args.id \notin DOMAIN categories
     THEN Fail("categories.remove", args, "Category not found")
     ELSE IF ByField(subscriptions, "categoryId", args.id) # {}
     THEN Fail("categories.remove", args,
               "Cannot delete category that is in use by subscriptions")
     ELSE IF ByField(requests, "categoryId", args.id) # {}
     THEN Fail("categories.remove", args,
               "Cannot delete category that is in use by subscription requests")
     ELSE
       /\ categories' = Delete(categories, {args.id})
       /\ ret' = Returned("categories.remove", args, NONE)
       /\ UNCHANGED <<currencies, users, counters, subscriptions, credentials, requests,
                      auditLogs, rateLimits, nextId, scheduled, issued, env, clock>>

----------------------------------------------------------------------------
(* convex/currencies.ts; rates are kept in tenths, the symbol is checked and
   not stored *)

\* the upper-case letter of each lower-case letter
UpperOf ==
  LET at(c) == CHOOSE i \in 1..Len(LowerCase) : CharAt(LowerCase, i) = c
  IN [c \in CharsOf(LowerCase) |-> CharAt(UpperCase, at(c))]

RECURSIVE toUpperCase(_)
toUpperCase(s) ==
  IF Len(s) = 0 THEN ""
  ELSE (IF CharAt(s, 1) \in DOMAIN UpperOf THEN UpperOf[CharAt(s, 1)] ELSE CharAt(s, 1))
         \o toUpperCase(SubSeq(s, 2, Len(s)))

\* the checks create and update share: NONE, or the error
CurrencyFieldError(name, symbol, exchangeRate) ==
  IF Len(name) < 1 \/ Len(name) > 100
  THEN "Currency name must be between 1 and 100 characters"
  ELSE IF Len(symbol) < 1 \/ Len(symbol) > 5
  THEN "Currency symbol must be between 1 and 5 characters"
  ELSE IF ~validatePositiveNumber(exchangeRate) \/ exchangeRate <= 0
  THEN "Exchange rate must be a positive number"
  ELSE NONE

\* create (admin only)
CreateCurrency(args) ==
  LET admin == requireAdmin(args.adminEmail)
      code == Trim(toUpperCase(args.code))
      name == sanitizeString(args.name)
      error == CurrencyFieldError(name, sanitizeString(args.symbol), args.exchangeRate)
      existing == ByField(currencies, "code", code)
      id == nextId["currencies"] + 1
  IN IF ~admin.ok THEN Fail("currencies.create", args, admin.error)
     ELSE IF Len(code) < 2 \/ Len(code) > 5
     THEN Fail("currencies.create", args, "Currency code must be between 2 and 5 characters")
     ELSE IF ~AllIn(code, CharsOf(UpperCase))
     THEN Fail("currencies.create", args, "Currency code must contain only letters")
     ELSE IF error # NONE THEN Fail("currencies.create", args, error)
     ELSE IF UniqueThrows(existing)
     THEN Fail("currencies.create", args, "unique() returned more than one result")
     ELSE IF existing # {}
     THEN Fail("currencies.create", args, "Currency with code " \o code \o " already exists")
     ELSE
       /\ currencies' = Insert(currencies, id,
                               [code |-> code, name |-> name,
                                exchangeRate |-> args.exchangeRate,
                                isActive |-> args.isActive])
       /\ nextId' = [nextId EXCEPT !["currencies"] = @ + 1]
       /\ ret' = Returned("currencies.create", args, id)
       /\ UNCHANGED <<categories, users, counters, subscriptions, credentials, requests,
                      auditLogs, rateLimits, scheduled, issued, env, clock>>

\* update (admin only)
UpdateCurrency(args) ==
  LET admin == requireAdmin(args.adminEmail)
      name == sanitizeString(args.name)
      error == CurrencyFieldError(name, sanitizeString(args.symbol), args.exchangeRate)
  IN IF ~admin.ok THEN Fail("currencies.update", args, admin.error)
     ELSE IF args.id \notin DOMAIN currencies
     THEN Fail("currencies.update", args, "Currency not found")
     ELSE IF error # NONE THEN Fail("currencies.update", args, error)
     ELSE IF currencies[args.id].code = "INR" /\ args.exchangeRate # 10
     THEN Fail("currencies.update", args, "Cannot modify INR exchange rate (base currency)")
     ELSE
       /\ currencies' = Patch(currencies, args.id,
                              [name |-> name, exchangeRate |-> args.exchangeRate,
                               isActive |-> args.isActive])
       /\ ret' = Returned("currencies.update", args, args.id)
       /\ UNCHANGED <<categories, users, counters, subscriptions, credentials, requests,
                      auditLogs, rateLimits, nextId, scheduled, issued, env, clock>>

\* a remove that looks only at the subscriptions
RemoveUnlessSubscribed(args) ==
  LET admin == requireAdmin(args.adminEmail)
  IN IF ~admin.ok THEN Fail("currencies.remove", args, admin.error)
     ELSE IF args.id \notin DOMAIN currencies
     THEN Fail("currencies.remove", args, "Currency not found")
     ELSE IF currencies[args.id].code = "INR"
     THEN Fail("currencies.remove", args, "Cannot delete INR (base currency)")
     ELSE IF ByField(subscriptions, "currencyId", args.id) # {}
     THEN Fail("currencies.remove", args,
               "Cannot delete currency that is in use by subscriptions")
     ELSE
       /\ currencies' = Delete(currencies, {args.id})
       /\ ret' = Returned("currencies.remove", args, NONE)
       /\ UNCHANGED <<categories, users, counters, subscriptions, credentials, requests,
                      auditLogs, rateLimits, nextId, scheduled, issued, env, clock>>

\* remove (admin only)
RemoveCurrency(args) ==
  LET admin == requireAdmin(args.adminEmail)
  IN IF ~admin.ok THEN Fail("currencies.remove", args, admin.error)
     ELSE IF args.id \notin DOMAIN currencies
     THEN Fail("currencies.remove", args, "Currency not found")
     ELSE IF currencies[args.id].code = "INR"
     THEN Fail("currencies.remove", args, "Cannot delete INR (base currency)")
     ELSE IF ByField(subscriptions, "currencyId", args.id) # {}
     THEN Fail("currencies.remove", args,
               "Cannot delete currency that is in use by subscriptions")
     ELSE IF ByField(requests, "currencyId", args.id) # {}
     THEN Fail("currencies.remove", args,
               "Cannot delete currency that is in use by subscription requests")
     ELSE
       /\ currencies' = Delete(currencies, {args.id})
       /\ ret' = Returned("currencies.remove", args, NONE)
       /\ UNCHANGED <<categories, users, counters, subscriptions, credentials, requests,
                      auditLogs, rateLimits, nextId, scheduled, issued, env, clock>>

\* toggleActive (admin only)
ToggleActive(args) ==
  LET admin == requireAdmin(args.adminEmail)
  IN IF ~admin.ok THEN Fail("currencies.toggleActive", args, admin.error)
     ELSE IF args.id \notin DOMAIN currencies
     THEN Fail("currencies.toggleActive", args, "Currency not found")
     ELSE IF currencies[args.id].code = "INR" /\ currencies[args.id].isActive
     THEN Fail("currencies.toggleActive", args, "Cannot deactivate INR (base currency)")
     ELSE
       /\ currencies' = Patch(currencies, args.id,
                              [isActive |-> ~currencies[args.id].isActive])
       /\ ret' = Returned("currencies.toggleActive", args, args.id)
       /\ UNCHANGED <<categories, users, counters, subscriptions, credentials, requests,
                      auditLogs, rateLimits, nextId, scheduled, issued, env, clock>>

----------------------------------------------------------------------------
(* src/lib/bulkImportUtils.ts (kept in tasks/todo.md): validateRow.  A row
   is a record of the cells by the field their column is mapped to; a field
   no column is mapped to is absent from the record *)

RECURSIVE NumberOf(_)
\* the number a string of digits stands for
NumberOf(s) ==
  LET digit(c) == (CHOOSE i \in 1..10 : CharAt("0123456789", i) = c) - 1
  IN IF Len(s) = 0 THEN 0
     ELSE 10 * NumberOf(SubSeq(s, 1, Len(s) - 1)) + digit(CharAt(s, Len(s)))

\* the digits a string begins with
DigitPrefix(s) ==
  LET n == CHOOSE k \in 0..Len(s) :
             /\ \A i \in 1..k : CharAt(s, i) \in Digits
             /\ k < Len(s) => CharAt(s, k + 1) \notin Digits
  IN SubSeq(s, 1, n)

\* parseFloat, for strings without a decimal point or an exponent: an
\* optional sign and the digits that follow it, whatever comes after them;
\* [nan, value]
parseFloat(str) ==
  LET s == TrimStart(str)
      signed == Len(s) > 0 /\ CharAt(s, 1) \in {"-", "+"}
      digits == DigitPrefix(IF signed THEN SubSeq(s, 2, Len(s)) ELSE s)
  IN IF digits = "" THEN [nan |-> TRUE, value |-> 0]
     ELSE [nan |-> FALSE,
           value |-> IF signed /\ CharAt(s, 1) = "-" THEN 0 - NumberOf(digits)
                     ELSE NumberOf(digits)]

\* the lower-case property names an object literal inherits from
\* Object.prototype: map[key] is an object for them, not undefined
InheritedKeys == {"constructor", "__proto__"}

\* map[key] || null, for an object literal map: NONE stands for null
Lookup(map, key) ==
  IF key \in DOMAIN map THEN map[key]
  ELSE IF key \in InheritedKeys THEN "[object " \o key \o "]"
  ELSE NONE

BillingCycleMap ==
  [k \in {"monthly", "month"} |-> "monthly"]
    @@ [k \in {"quarterly", "quarter"} |-> "quarterly"]
    @@ [k \in {"half-yearly", "half yearly", "semi-annual", "semi-annually"} |-> "half-yearly"]
    @@ [k \in {"yearly", "year", "annual", "annually"} |-> "yearly"]

normalizeBillingCycle(value) ==
  IF value = "" THEN NONE ELSE Lookup(BillingCycleMap, Trim(toLowerCase(value)))

RECURSIVE JoinRuns(_, _)
\* replace(/[\s_-]+/g, "_"); inRun: the character before was replaced
JoinRuns(s, inRun) ==
  IF Len(s) = 0 THEN ""
  ELSE IF CharAt(s, 1) \in WhiteSpace \cup {"_", "-"}
  THEN (IF inRun THEN "" ELSE "_") \o JoinRuns(SubSeq(s, 2, Len(s)), TRUE)
  ELSE CharAt(s, 1) \o JoinRuns(SubSeq(s, 2, Len(s)), FALSE)

PaymentMethodMap ==
  [k \in {"credit_card", "creditcard", "credit"} |-> "credit_card"]
    @@ [k \in {"debit_card", "debitcard", "debit"} |-> "debit_card"]
    @@ [k \in {"bank_transfer", "banktransfer", "bank", "wire"} |-> "bank_transfer"]
    @@ [k \in {"upi"} |-> "upi"]
    @@ [k \in {"other"} |-> "other"]

normalizePaymentMethod(value) ==
  IF value = "" THEN NONE
  ELSE Lookup(PaymentMethodMap, JoinRuns(Trim(toLowerCase(value)), FALSE))

StatusMap ==
  [k \in {"active", "expired", "pending"} |-> k]
    @@ [k \in {"cancelled", "canceled"} |-> "cancelled"]

normalizeStatus(value) ==
  IF value = "" THEN NONE ELSE Lookup(StatusMap, Trim(toLowerCase(value)))

\* parseDate, for the ISO form YYYY-MM-DD and for strings that are no date:
\* the other forms it accepts are not among the inputs; NONE stands for null
parseDate(value) ==
  IF Trim(value) = "" THEN NONE
  ELSE IF validateDateString(Trim(value)) THEN Trim(value)
  ELSE NONE

\* get: the trimmed cell of the column mapped to the field, "" when there is none
get(row, field) == IF field \in DOMAIN row THEN Trim(row[field]) ELSE ""

\* the categories whose name is the given one, whatever the case
CategoryNamed(name) ==
  {c \in DOMAIN categories : toLowerCase(categories[c].name) = toLowerCase(name)}

\* the currencies whose code is the given one, whatever the case
CurrencyCoded(code) ==
  {c \in DOMAIN currencies : toLowerCase(currencies[c].code) = toLowerCase(code)}

\* validateRow: [valid, errors, data]; errors is the set of the keys of the
\* errors object, and the data of an invalid row, null, is <<>>
validateRow(row) ==
  LET name == get(row, "name")
      costStr == get(row, "cost")
      cost == parseFloat(costStr)
      categoryName == get(row, "category")
      currencyCode == IF get(row, "currency") = "" THEN "INR" ELSE get(row, "currency")
      currency == {c \in CurrencyCoded(currencyCode) : currencies[c].isActive}
      billingCycleRaw == get(row, "billingCycle")
      billingCycle == IF billingCycleRaw # "" THEN normalizeBillingCycle(billingCycleRaw)
                      ELSE "monthly"
      paymentMethodRaw == get(row, "paymentMethod")
      paymentMethod == IF paymentMethodRaw # "" THEN normalizePaymentMethod(paymentMethodRaw)
                       ELSE "other"
      statusRaw == get(row, "status")
      status == IF statusRaw # "" THEN normalizeStatus(statusRaw) ELSE "active"
      dateRaw == get(row, "nextRenewalDate")
      nextRenewalDate == IF dateRaw # "" THEN parseDate(dateRaw) ELSE formatDateToISO(today)
      errors ==
        {f \in {"name", "cost", "category", "currency", "billingCycle", "paymentMethod",
                "status", "nextRenewalDate"} :
           \/ f = "name" /\ name = ""
           \/ f = "cost" /\ (costStr = "" \/ cost.nan \/ cost.value <= 0)
           \/ f = "category" /\ (categoryName = "" \/ CategoryNamed(categoryName) = {})
           \/ f = "currency" /\ currency = {}
           \/ f = "billingCycle" /\ billingCycleRaw # "" /\ billingCycle = NONE
           \/ f = "paymentMethod" /\ paymentMethodRaw # "" /\ paymentMethod = NONE
           \/ f = "status" /\ statusRaw # "" /\ status = NONE
           \/ f = "nextRenewalDate" /\ dateRaw # "" /\ parseDate(dateRaw) = NONE}
  IN IF errors # {} THEN [valid |-> FALSE, errors |-> errors, data |-> <<>>]
     ELSE [valid |-> TRUE, errors |-> {},
           data |-> << [name |-> name, description |-> get(row, "description"),
                        provider |-> get(row, "provider"),
                        categoryId |-> TheOne(CategoryNamed(categoryName)),
                        cost |-> cost.value,
                        currencyId |-> TheOne(currency),
                        billingCycle |-> billingCycle,
                        nextRenewalDate |-> nextRenewalDate,
                        paymentMethod |-> paymentMethod, status |-> status,
                        notificationEnabled |-> TRUE, notificationDaysBefore |-> 7] >>]

----------------------------------------------------------------------------
(* src/pages/admin/Subscriptions/BulkImportDialog.tsx *)

BATCH_SIZE == 100

\* useAuth: the session of the seeded admin
SessionUser == [email |-> DefaultAdminEmail]

\* validationResults: validateRow of every raw row
validationResults == [k \in 1..Len(importer.rawRows) |-> validateRow(importer.rawRows[k])]

\* a result that is valid and has data
HasData(r) == r.valid /\ r.data # <<>>

\* the data of the results that are valid and have data, in order
ValidRowsOf(results) ==
  LET kept == SelectSeq(results, HasData)
  IN [k \in 1..Len(kept) |-> kept[k].data[1]]

NoResults == [total |-> 0, succeeded |-> 0, failed |-> 0, results |-> <<>>]

\* handleFileUpload, for a file that was read into rows
HandleFileUpload(rows) ==
  /\ importer.step = "upload"
  /\ importer' =
       IF Len(rows) = 0
       THEN [importer EXCEPT !.toast = "No data rows found"]
       ELSE [importer EXCEPT !.rawRows = rows, !.step = "mapping",
                             !.toast = "Parsed " \o ToString(Len(rows)) \o " rows"]
  /\ UNCHANGED <<tables, issued, env, clock, ret, inflight, vault, accepted>>

\* handleClose, between two imports
HandleClose ==
  /\ importer.running = <<>>
  /\ importer # NewDialog
  /\ importer' = NewDialog
  /\ UNCHANGED <<tables, issued, env, clock, ret, inflight, vault, accepted>>

\* handleImport, up to the loop
HandleImport ==
  LET validRows == ValidRowsOf(validationResults)
  IN /\ importer.step = "mapping"
     /\ ~importer.isImporting
     /\ importer' =
          IF SessionUser.email = "" THEN importer
          ELSE IF Len(validRows) = 0
          THEN [importer EXCEPT !.toast = "No valid rows to import"]
          ELSE [importer EXCEPT
                  !.isImporting = TRUE,
                  !.running = << [validRows |-> validRows, i |-> 0,
                                  allResults |-> NoResults] >>]
     /\ UNCHANGED <<tables, issued, env, clock, ret, inflight, vault, accepted>>

\* handleImport, one turn of the loop: the call of bulkCreate for the batch
\* from row i on, and what follows its answer (the next turn, the end of the
\* loop, or the catch); delivered: the call reaches the backend
ImportBatch(delivered) ==
  LET run == importer.running[1]
      i == run.i
      n == Len(run.validRows)
      batch == SubSeq(run.validRows, i + 1, IF i + BATCH_SIZE < n THEN i + BATCH_SIZE ELSE n)
      args == [adminEmail |-> SessionUser.email, subscriptions |-> batch]
      result == ret'.value
      allResults ==
        [total |-> run.allResults.total + result.total,
         succeeded |-> run.allResults.succeeded + result.succeeded,
         failed |-> run.allResults.failed + result.failed,
         results |-> run.allResults.results \o
                     [k \in 1..Len(result.results) |->
                        [result.results[k] EXCEPT !.index = @ + i]]]
  IN /\ importer.running # <<>>
     /\ IF delivered THEN BulkCreate(args)
        ELSE Fail("subscriptions.bulkCreate", args, "Connection lost")
     /\ importer' =
          IF ~ret'.ok
          THEN [importer EXCEPT !.toast = "Import failed", !.isImporting = FALSE,
                                !.running = <<>>]
          ELSE IF i + BATCH_SIZE < n
          THEN [importer EXCEPT !.running = << [run EXCEPT !.i = i + BATCH_SIZE,
                                                          !.allResults = allResults] >>]
          ELSE [importer EXCEPT
                  !.importResults = <<allResults>>, !.step = "results",
                  !.toast = IF allResults.failed = 0
                            THEN "Successfully imported " \o ToString(allResults.succeeded)
                                 \o " subscriptions"
                            ELSE "Imported " \o ToString(allResults.succeeded) \o " of "
                                 \o ToString(allResults.total),
                  !.isImporting = FALSE, !.running = <<>>]
     /\ UNCHANGED <<inflight, vault, accepted>>

----------------------------------------------------------------------------
(* Decisions in flight.  A call of approve or reject is sent by the admin's
   browser and is in flight until the backend runs it; the backend runs the
   calls in flight one at a time, each as one transaction, in any order *)

\* the call is sent; seen: the status the request had when the call was sent,
\* earlier: the calls that had been answered by then
Send(op, args) ==
  /\ inflight' = Append(inflight,
                        [op |-> op, args |-> args,
                         seen |-> IF args.id \in DOMAIN requests
                                  THEN requests[args.id].status ELSE NONE,
                         earlier |-> {c \in DOMAIN inflight : inflight[c].state = "answered"},
                         state |-> "sent", ok |-> FALSE, error |-> NONE])
  /\ UNCHANGED <<tables, issued, env, clock, ret, importer, vault, accepted>>

\* the backend runs the call c and answers it
Serve(c) ==
  /\ inflight[c].state = "sent"
  /\ IF inflight[c].op = "approve" THEN Approve(inflight[c].args, TRUE)
     ELSE Reject(inflight[c].args, TRUE)
  /\ inflight' = [inflight EXCEPT ![c].state = "answered", ![c].ok = ret'.ok,
                                  ![c].error = ret'.error]
  /\ UNCHANGED <<importer, vault, accepted>>

----------------------------------------------------------------------------
(* The calls the model makes *)

Admin == "admin@company.com"

\* callers that are not the admin: unknown, and with no session email
NotAdmins == {"eve@company.com", ""}

BaseRequest ==
  [name |-> "Figma <Pro>", description |-> "Design tool for the team",
   provider |-> "Figma", categoryId |-> 1, cost |-> 450, currencyId |-> 1,
   billingCycle |-> "monthly", requestedBy |-> "John Designer",
   requesterEmail |-> "John@Company.com", requesterDepartment |-> "Design",
   justification |-> "Needed for collaborative design work"]

With(r, field, value) == [r EXCEPT ![field] = value]

\* submissions: valid ones, and ones submit refuses
SubmitInputs ==
  { BaseRequest,
    With(BaseRequest, "requesterEmail", "john@company") }

\* the numbers of requests and of subscriptions the seed inserts
SeedRequestCount == Len(SeedRequests([i \in 1..6 |-> i], [i \in 1..4 |-> i]))

SeedSubscriptionCount == Len(SeedSubscriptions([i \in 1..6 |-> i], [i \in 1..4 |-> i]))

\* the requests reviewed: a seeded pending one, the seeded approved one, and
\* the submitted ones
RequestIds ==
  {1, SeedRequestCount} \cup ((SeedRequestCount + 1)..(SeedRequestCount + MaxNewReqs))

ApproveInputs ==
  [adminEmail : {Admin}, id : RequestIds, adminNotes : {"Within <budget>"}]
    \cup [adminEmail : NotAdmins, id : {1}, adminNotes : {NONE}]

RejectInputs ==
  [adminEmail : {Admin}, id : RequestIds, adminNotes : {"Not needed this quarter"}]
    \cup [adminEmail : {Admin}, id : {1}, adminNotes : {"No"}]
    \cup [adminEmail : NotAdmins, id : {1}, adminNotes : {"Not needed this quarter"}]

RemoveRequestInputs ==
  [adminEmail : {Admin}, id : RequestIds] \cup [adminEmail : NotAdmins, id : {1}]

\* requests submitted after the seed
NewReqs == nextId["subscriptionRequests"] - SeedRequestCount

\* subscriptions inserted after the seed
NewSubs == nextId["subscriptions"] - SeedSubscriptionCount

----------------------------------------------------------------------------
(* The request workflow: seed, submit, approve, reject, remove *)

Init == InitWith({ValidKey}, {DateAt(1)})

Next ==
  \/ Seed /\ UNCHANGED clients
  \/ \E args \in SubmitInputs : NewReqs < MaxNewReqs /\ Submit(args, TRUE) /\ UNCHANGED clients
  \/ \E args \in ApproveInputs : Approve(args, TRUE) /\ UNCHANGED clients
  \/ \E args \in RejectInputs : Reject(args, TRUE) /\ UNCHANGED clients
  \/ \E args \in RemoveRequestInputs : RemoveRequest(args) /\ UNCHANGED clients

Spec == Init /\ [][Next]_vars

----------------------------------------------------------------------------
(* Properties of the request workflow *)

\* the call of this step was made by an admin on a stored request
ReviewOf(op) ==
  /\ ret'.op = op
  /\ requireAdmin(ret'.args.adminEmail).ok
  /\ ret'.args.id \in DOMAIN requests

\* C1: a request's status is terminal once decided: a stored request whose
\* status is "approved" or "rejected" keeps that status in every step, whatever
\* submit, approve, reject or remove call the step makes (it can only be deleted)
C1_StatusTerminal ==
  [][\A r \in DOMAIN requests :
       (requests[r].status \in {"approved", "rejected"} /\ r \in DOMAIN requests')
         => requests'[r].status = requests[r].status]_vars

\* a rejected request that an admin has just tried to approve
C1_Witness ==
  /\ ret.op = "approve" /\ requireAdmin(ret.args.adminEmail).ok
  /\ ret.args.id \in DOMAIN requests
  /\ requests[ret.args.id].status = "rejected"

\* C2: approve or reject called by an admin on a stored request that is not
\* pending fails with an error and changes nothing: no subscription inserted,
\* no counter advanced, the request unchanged, no notification scheduled
C2_DecidedRequestRefused ==
  [][\A op \in {"approve", "reject"} :
       (ReviewOf(op) /\ requests[ret'.args.id].status # "pending")
         => /\ ~ret'.ok
            /\ ret'.error # NONE
            /\ subscriptions' = subscriptions
            /\ counters' = counters
            /\ requests' = requests
            /\ scheduled' = scheduled
            /\ nextId' = nextId]_vars

\* an approved request that an admin has just tried to reject with a valid reason
C2_Witness ==
  /\ ret.op = "reject" /\ ~ret.ok
  /\ ret.error = "Can only reject pending requests"
  /\ ret.args.id \in DOMAIN requests
  /\ requests[ret.args.id].status = "approved"

\* C3: each successful approve inserts exactly one subscription, which copies
\* the request's name, description, provider, category, cost, currency and
\* billing cycle, has paymentMethod "other", status "active",
\* notificationEnabled TRUE, notificationDaysBefore 7 and the SUB reference
\* number this call allocated from the year's counter, and sets the request to
\* "approved" with the admin's email as reviewedBy; a successful reject inserts
\* no subscription
C3_ApproveCreatesSubscription ==
  [][/\ (ret'.op = "approve" /\ ret'.ok) =>
          LET id == ret'.args.id
              request == requests[id]
              added == DOMAIN subscriptions' \ DOMAIN subscriptions
              name == counterName("subscription", today[1])
          IN /\ request.status = "pending"
             /\ Cardinality(added) = 1
             /\ \A s \in DOMAIN subscriptions :
                  s \in DOMAIN subscriptions' /\ subscriptions'[s] = subscriptions[s]
             /\ \A s \in added :
                  /\ s = ret'.value.subscriptionId
                  /\ subscriptions'[s].name = request.name
                  /\ subscriptions'[s].description = request.description
                  /\ subscriptions'[s].provider = request.provider
                  /\ subscriptions'[s].categoryId = request.categoryId
                  /\ subscriptions'[s].cost = request.cost
                  /\ subscriptions'[s].currencyId = request.currencyId
                  /\ subscriptions'[s].billingCycle = request.billingCycle
                  /\ subscriptions'[s].paymentMethod = "other"
                  /\ subscriptions'[s].status = "active"
                  /\ subscriptions'[s].notificationEnabled = TRUE
                  /\ subscriptions'[s].notificationDaysBefore = 7
                  /\ SubSeq(subscriptions'[s].referenceNumber, 1, 4) = "SUB-"
                  /\ \E c \in DOMAIN counters' :
                       /\ counters'[c].name = name
                       /\ subscriptions'[s].referenceNumber =
                            formatReference("subscription", today[1], counters'[c].value)
                       /\ IF c \in DOMAIN counters
                          THEN counters'[c].value = counters[c].value + 1
                          ELSE counters'[c].value = 1
             /\ requests'[id].status = "approved"
             /\ requests'[id].reviewedBy = toLowerCase(ret'.args.adminEmail)
             /\ \E u \in DOMAIN users :
                  users[u].role = "admin" /\ users[u].email = requests'[id].reviewedBy
     /\ (ret'.op = "reject" /\ ret'.ok) =>
          /\ subscriptions' = subscriptions
          /\ requests'[ret'.args.id].status = "rejected"]_vars

\* a request submitted after the seed has just been approved into a subscription
C3_Witness ==
  /\ ret.op = "approve" /\ ret.ok
  /\ ret.args.id > SeedRequestCount
  /\ ret.value.subscriptionId \in DOMAIN subscriptions
  /\ subscriptions[ret.value.subscriptionId].paymentMethod = "other"
  /\ requests[ret.args.id].status = "approved"
  /\ requests[ret.args.id].reviewedBy = Admin

----------------------------------------------------------------------------
(* Reference numbers: seed, create, bulkCreate, approve, remove and submit, *)
(* with the calendar moving on                                              *)

BaseSubscription ==
  [name |-> "Linear", description |-> "Issue tracking", provider |-> "Linear Orbit",
   categoryId |-> 1, cost |-> 800, currencyId |-> 1, billingCycle |-> "monthly",
   nextRenewalDate |-> "2027-01-15", paymentMethod |-> "credit_card",
   status |-> "active", notificationEnabled |-> TRUE, notificationDaysBefore |-> 7]

CreateInputs == { [adminEmail |-> Admin, sub |-> BaseSubscription] }

\* an import of two rows
BulkInputs ==
  { [adminEmail |-> Admin, subscriptions |-> <<BaseSubscription, BaseSubscription>>] }

\* a seeded pending request
ApproveLaterInputs == { [adminEmail |-> Admin, id |-> 1, adminNotes |-> NONE] }

\* the first subscription inserted after the seed
RemoveSubscriptionInputs == { [adminEmail |-> Admin, id |-> SeedSubscriptionCount + 1] }

InitRefs == InitWith({NoKey}, {DateAt(0)})

NextRefs ==
  \/ Seed /\ UNCHANGED clients
  \/ AdvanceDate /\ UNCHANGED clients
  \/ \E args \in CreateInputs : NewSubs < MaxNewSubs /\ CreateSubscription(args)
       /\ UNCHANGED clients
  \/ \E args \in BulkInputs :
       NewSubs + Len(args.subscriptions) <= MaxNewSubs /\ BulkCreate(args) /\ UNCHANGED clients
  \/ \E args \in ApproveLaterInputs : NewSubs < MaxNewSubs /\ Approve(args, TRUE)
       /\ UNCHANGED clients
  \/ \E args \in RemoveSubscriptionInputs : RemoveSubscription(args) /\ UNCHANGED clients
  \/ \E args \in {BaseRequest} : NewReqs < MaxNewReqs /\ Submit(args, TRUE) /\ UNCHANGED clients

SpecRefs == InitRefs /\ [][NextRefs]_vars

C5_CountersCountFromOne ==
  /\ [](\A name \in DOMAIN issued :
          issued[name].absent =>
            \A k \in 1..Len(issued[name].values) : issued[name].values[k] = k)
  /\ [][\A c \in DOMAIN counters :
          /\ c \in DOMAIN counters'
          /\ counters'[c].name = counters[c].name
          /\ counters'[c].value >= counters[c].value]_vars

\* two calls under a counter name that was absent, and a call under another
C5_Witness ==
  \E name \in DOMAIN issued :
    /\ issued[name].absent
    /\ Len(issued[name].values) >= 2
    /\ \E other \in DOMAIN issued \ {name} : issued[other].absent

----------------------------------------------------------------------------
(* The credential vault: seed, reveal, create, update, remove, the removal  *)
(* of a subscription, and the deployment's key being unset and set          *)

\* a subscription the seed gives a credential, and one it gives none
VaultSubscriptions == {1, SeedCredentialCount + 1}

RevealInputs ==
  { [adminEmail |-> Admin, subscriptionId |-> 1, action |-> "viewed"],
    [adminEmail |-> Admin, subscriptionId |-> 1, action |-> "copied"],
    [adminEmail |-> Admin, subscriptionId |-> SeedCredentialCount + 1, action |-> "viewed"],
    [adminEmail |-> "eve@company.com", subscriptionId |-> 1, action |-> "viewed"] }

CreateCredentialInputs ==
  [adminEmail : {Admin}, subscriptionId : VaultSubscriptions, username : {"ops"},
   password : {StrCodes("s3cret<>")}, notes : {NONE}]

UpdateCredentialInputs ==
  [adminEmail : {Admin}, id : {1}, username : {"root"},
   password : {StrCodes("changed")}, notes : {NONE}]

RemoveCredentialInputs == [adminEmail : {Admin}, id : {1}]

RemoveVaultSubscriptionInputs == [adminEmail : {Admin}, id : {1}]

AuditLogsWritten == nextId["auditLogs"]

NewCreds == nextId["credentials"] - SeedCredentialCount

InitVault == InitWith({ValidKey}, {DateAt(1)})

NextVault ==
  \/ Seed /\ UNCHANGED clients
  \/ \E key \in {ValidKey, NoKey} : SetEncryptionKey(key) /\ UNCHANGED clients
  \/ \E args \in RevealInputs : AuditLogsWritten < MaxAuditLogs /\ Reveal(args) /\ UNCHANGED clients
  \/ \E args \in CreateCredentialInputs, iv \in SeedIVs :
       /\ \/ NewCreds < MaxNewCreds
          \/ ByField(credentials, "subscriptionId", args.subscriptionId) # {}
       /\ CreateCredential(args, iv)
       /\ UNCHANGED clients
  \/ \E args \in UpdateCredentialInputs, iv \in SeedIVs :
       AuditLogsWritten < MaxAuditLogs /\ UpdateCredential(args, iv) /\ UNCHANGED clients
  \/ \E args \in RemoveCredentialInputs : RemoveCredential(args) /\ UNCHANGED clients
  \/ \E args \in RemoveVaultSubscriptionInputs : RemoveSubscription(args) /\ UNCHANGED clients

SpecVault == InitVault /\ [][NextVault]_vars

\* the audit entries of the next state that the current state does not have
NewAuditEntries == DOMAIN auditLogs' \ DOMAIN auditLogs

\* every audit entry of the current state is in the next state, unchanged
AuditLogKept ==
  \A l \in DOMAIN auditLogs : l \in DOMAIN auditLogs' /\ auditLogs'[l] = auditLogs[l]

\* C6: every successful reveal inserts, in its own mutation, exactly one audit
\* entry, with the requested action, the subscription and the admin's email,
\* and keeps the entries there were: the state in which the plaintext is
\* returned holds the entry, and N reveals add N entries
C6_RevealIsAudited ==
  [][(ret'.op = "credentials.reveal" /\ ret'.ok) =>
       /\ Cardinality(NewAuditEntries) = 1
       /\ AuditLogKept
       /\ \A e \in NewAuditEntries :
            /\ auditLogs'[e].action = ret'.args.action
            /\ auditLogs'[e].subscriptionId = ret'.args.subscriptionId
            /\ auditLogs'[e].performedBy = toLowerCase(ret'.args.adminEmail)
            /\ \E u \in DOMAIN users :
                 users[u].role = "admin" /\ users[u].email = auditLogs'[e].performedBy]_vars

\* the second of two reveals has just returned the seeded password
C6_Witness ==
  /\ ret.op = "credentials.reveal" /\ ret.ok
  /\ ret.value.password = StrCodes(SeedPassword)
  /\ Cardinality({l \in DOMAIN auditLogs : auditLogs[l].action \in {"viewed", "copied"}}) = 2

\* C7: the audit log is append-only: no public mutation deletes or modifies
\* an audit entry once written
C7_AuditLogAppendOnly == [][AuditLogKept]_vars

\* the credential operations of C8
CredentialOps ==
  {"credentials.reveal", "credentials.create", "credentials.update", "credentials.remove"}

\* the subscription a successful credential call of this step is about
AffectedSubscription ==
  IF ret'.op \in {"credentials.reveal", "credentials.create"}
  THEN ret'.args.subscriptionId
  ELSE credentials[ret'.args.id].subscriptionId

\* C8: every successful credentials.reveal, create, update and remove appends
\* exactly one audit entry, for the affected subscription
C8_CredentialOpsAudited ==
  [][(ret'.op \in CredentialOps /\ ret'.ok) =>
       /\ Cardinality(NewAuditEntries) = 1
       /\ \A e \in NewAuditEntries :
            auditLogs'[e].subscriptionId = AffectedSubscription]_vars

\* C9: no two credentials share a subscriptionId, and credentials.create by an
\* admin for a subscription that has a credential fails without inserting
C9_OneCredentialPerSubscription ==
  /\ [](\A c, d \in DOMAIN credentials :
          c # d => credentials[c].subscriptionId # credentials[d].subscriptionId)
  /\ [][(/\ ret'.op = "credentials.create"
         /\ requireAdmin(ret'.args.adminEmail).ok
         /\ \E c \in DOMAIN credentials :
              credentials[c].subscriptionId = ret'.args.subscriptionId)
          => ~ret'.ok /\ credentials' = credentials /\ nextId' = nextId]_vars

\* a create refused for a subscription whose credential was itself created
C9_Witness ==
  /\ ret.op = "credentials.create" /\ ~ret.ok
  /\ ret.error = "Credentials already exist for this subscription"
  /\ \E c \in DOMAIN credentials :
       c > SeedCredentialCount /\ credentials[c].subscriptionId = ret.args.subscriptionId

----------------------------------------------------------------------------
(* The rate limit of submit: one requester, the clock moving by half windows *)

\* half a rate-limit window passes
Tick ==
  /\ now < MaxTicks * (RATE_LIMIT_WINDOW \div 2)
  /\ now' = now + (RATE_LIMIT_WINDOW \div 2)
  /\ ret' = [op |-> "clock", args |-> NoArgs, ok |-> TRUE, error |-> NONE, value |-> now']
  /\ UNCHANGED <<tables, issued, env, today>>

InitRate == InitWith({NoKey}, {DateAt(1)})

NextRate ==
  \/ Seed /\ UNCHANGED clients
  \/ Tick /\ UNCHANGED clients
  \/ \E args \in {BaseRequest} : NewReqs < MaxRateReqs /\ Submit(args, TRUE) /\ UNCHANGED clients

SpecRate == InitRate /\ [][NextRate]_vars

\* the rate-limit rows of the requester of BaseRequest
RequesterRows == ByField(rateLimits, "key", "email:john@company.com")

\* C10: per-email fixed window.  For an otherwise valid submit: with no row for
\* the email, or with the row's window expired (now - windowStart >= 1 hour),
\* it is accepted and the row becomes windowStart = now, count = 1, an expired
\* row being reset in place; within the window (now - windowStart < 1 hour) it
\* is accepted and counted while fewer than 5 were, and rejected without any
\* change once 5 were.  So the first 5 are accepted and the 6th is rejected.
C10_PerEmailWindow ==
  /\ [](/\ Cardinality(RequesterRows) <= 1
        /\ \A l \in RequesterRows :
             rateLimits[l].count >= 1 /\ rateLimits[l].count <= RATE_LIMIT_PER_EMAIL)
  /\ [][(ret'.op = "submit" /\ ret'.args = BaseRequest /\ DOMAIN categories # {}) =>
          LET open == \E l \in RequesterRows :
                        now - rateLimits[l].windowStart < RATE_LIMIT_WINDOW
              rows == ByField(rateLimits', "key", "email:john@company.com")
          IN IF open /\ \E l \in RequesterRows : rateLimits[l].count >= RATE_LIMIT_PER_EMAIL
             THEN /\ ~ret'.ok
                  /\ ret'.error = "Too many requests from this email. Please try again later."
                  /\ rateLimits' = rateLimits /\ requests' = requests
             ELSE /\ ret'.ok
                  /\ Cardinality(DOMAIN requests') = Cardinality(DOMAIN requests) + 1
                  /\ RequesterRows \subseteq rows
                  /\ \A l \in rows :
                       IF open
                       THEN /\ rateLimits'[l].windowStart = rateLimits[l].windowStart
                            /\ rateLimits'[l].count = rateLimits[l].count + 1
                       ELSE /\ rateLimits'[l].windowStart = now
                            /\ rateLimits'[l].count = 1]_vars

\* five requests were accepted in the first window, and after its expiry a
\* sixth has just been accepted, which reset the row
C10_Witness ==
  /\ ret.op = "submit" /\ ret.ok
  /\ NewReqs = RATE_LIMIT_PER_EMAIL + 1
  /\ now >= RATE_LIMIT_WINDOW
  /\ \E l \in RequesterRows : rateLimits[l].count = 1 /\ rateLimits[l].windowStart = now

----------------------------------------------------------------------------
(* Submissions until the global limit: requesters take turns, each sending as
   many requests as one email may send in a window, and the clock stands *)

\* the k-th requester's email
Requester(k) == "user" \o ToString(k) \o "@company.com"

\* the requester whose turn it is, and the one before
Turn == NewReqs \div RATE_LIMIT_PER_EMAIL

\* the ids of the currencies that have been deactivated
Deactivated == {c \in DOMAIN currencies : ~currencies[c].isActive}

\* the requests sent: by the requester whose turn it is, by the one before,
\* whose window is used up, and requests submit refuses for their category,
\* their currency or a field
BusyInputs ==
  LET request == With(BaseRequest, "requesterEmail", Requester(Turn))
  IN {request}
       \cup (IF Turn > 0 THEN {With(BaseRequest, "requesterEmail", Requester(Turn - 1))}
             ELSE {})
       \cup {With(request, "categoryId", 99), With(request, "currencyId", 99),
             With(request, "justification", "Because")}
       \cup {With(request, "currencyId", c) : c \in Deactivated}

ToggleInputs == [adminEmail : {Admin}, id : {2}]

InitBusy == InitWith({NoKey}, {DateAt(1)})

NextBusy ==
  \/ Seed /\ UNCHANGED clients
  \/ \E args \in ToggleInputs : ToggleActive(args) /\ UNCHANGED clients
  \/ \E args \in BusyInputs : Submit(args, TRUE) /\ UNCHANGED clients

SpecBusy == InitBusy /\ [][NextBusy]_vars

LimitRefusal ==
  /\ ret.op = "submit" /\ ~ret.ok
  /\ ret.args = With(BaseRequest, "requesterEmail", ret.args.requesterEmail)
  /\ ret.args.categoryId \in DOMAIN categories
  /\ ret.args.currencyId \in DOMAIN currencies \ Deactivated

\* C12: the caller of a submit refused for a rate limit gets the same error
\* whether the global or the per-email limit was exhausted: a refusal at the
\* global limit carries the error of a refusal at the per-email limit.
C12_OneRateLimitError ==
  LimitRefusal => ret.error = EmailLimitError

----------------------------------------------------------------------------
(* Approvals on days late in the month, for every billing cycle *)

BillingCycles == {"monthly", "quarterly", "half-yearly", "yearly"}

\* the days on which requests are approved: mid-month, the 29th, 30th and 31st,
\* and a leap day
ApprovalDates ==
  {<<2026, 1, 15>>, <<2026, 1, 29>>, <<2026, 1, 30>>, <<2026, 1, 31>>,
   <<2026, 8, 31>>, <<2026, 11, 30>>, <<2026, 12, 31>>, <<2028, 2, 29>>}

CycleInputs == {With(BaseRequest, "billingCycle", cycle) : cycle \in BillingCycles}

ApproveNewInputs ==
  [adminEmail : {Admin}, adminNotes : {NONE},
   id : (SeedRequestCount + 1)..(SeedRequestCount + MaxNewReqs)]

InitRenewal == InitWith({NoKey}, ApprovalDates)

NextRenewal ==
  \/ Seed /\ UNCHANGED clients
  \/ \E args \in CycleInputs : NewReqs < MaxNewReqs /\ Submit(args, TRUE) /\ UNCHANGED clients
  \/ \E args \in ApproveNewInputs : Approve(args, TRUE) /\ UNCHANGED clients

SpecRenewal == InitRenewal /\ [][NextRenewal]_vars

\* the calendar months a billing cycle spans
MonthsOf(billingCycle) ==
  CASE billingCycle = "monthly" -> 1
    [] billingCycle = "quarterly" -> 3
    [] billingCycle = "half-yearly" -> 6
    [] billingCycle = "yearly" -> 12

\* the day d of the month n months after month m of year y
SameDayAfter(date, n) ==
  LET month == date[1] * 12 + (date[2] - 1) + n
  IN <<month \div 12, (month % 12) + 1, date[3]>>

\* C13: the subscription an approval creates has as nextRenewalDate the
\* approval date advanced by 1, 3, 6 or 12 calendar months by billing cycle:
\* the same day of the month, in the month that many months later, also for
\* approvals on the 29th, 30th and 31st.
C13_RenewalSameDayOfMonth ==
  [][(ret'.op = "approve" /\ ret'.ok) =>
       subscriptions'[ret'.value.subscriptionId].nextRenewalDate
         = formatDateToISO(SameDayAfter(today,
                             MonthsOf(requests[ret'.args.id].billingCycle)))]_vars

----------------------------------------------------------------------------
(* Rejections with reasons of several lengths *)

\* reasons: too short, too short once trimmed, long enough, long enough once
\* trimmed, and a short one written with markup
Reasons ==
  {"No", "   Not now   ", "Not needed this quarter", "  Not needed  ", "<b>no</b>"}

ReasonInputs == [adminEmail : {Admin}, id : {1, 2}, adminNotes : Reasons]

InitReject == InitWith({NoKey}, {DateAt(1)})

NextReject ==
  \/ Seed /\ UNCHANGED clients
  \/ \E args \in ReasonInputs : Reject(args, TRUE) /\ UNCHANGED clients

SpecReject == InitReject /\ [][NextReject]_vars

\* C14: a rejection by the admin of a pending request succeeds only when the
\* reason, trimmed of whitespace, has 10 to 1000 characters: with a shorter or
\* longer trimmed reason it fails and the request stays pending; with a
\* trimmed reason of 10 to 1000 characters it is not refused for its length.
C14_ReasonLengthAfterTrim ==
  [][(/\ ret'.op = "reject"
      /\ ret'.args.id \in DOMAIN requests
      /\ requests[ret'.args.id].status = "pending") =>
       LET length == Len(Trim(ret'.args.adminNotes))
       IN IF length < 10 \/ length > 1000
          THEN ~ret'.ok /\ requests'[ret'.args.id].status = "pending"
          ELSE ret'.ok]_vars

----------------------------------------------------------------------------
(* Every admin-only mutation, called without a session, by an unknown caller,
   and (categories and currencies) by the admin *)

Callers == NotAdmins \cup {Admin}

NewCategory == [name |-> "Security", description |-> "Security tools", color |-> "#0EA5E9"]

NewCurrency ==
  [code |-> "jpy", name |-> "Japanese Yen", symbol |-> "JPY", exchangeRate |-> 6,
   isActive |-> TRUE]

InitAuth == InitWith({ValidKey}, {DateAt(1)})

NextAuth ==
  \/ Seed /\ UNCHANGED clients
  \/ \E args \in [adminEmail : NotAdmins, id : {1}, adminNotes : {NONE}] :
       Approve(args, TRUE) /\ UNCHANGED clients
  \/ \E args \in [adminEmail : NotAdmins, id : {1}, adminNotes : {"Not needed this quarter"}] :
       Reject(args, TRUE) /\ UNCHANGED clients
  \/ \E args \in [adminEmail : NotAdmins, id : {1}] : RemoveRequest(args) /\ UNCHANGED clients
  \/ \E args \in [adminEmail : NotAdmins, sub : {BaseSubscription}] :
       CreateSubscription(args) /\ UNCHANGED clients
  \/ \E args \in [adminEmail : NotAdmins, id : {1}, sub : {BaseSubscription}] :
       UpdateSubscription(args) /\ UNCHANGED clients
  \/ \E args \in [adminEmail : NotAdmins, subscriptions : {<<BaseSubscription>>}] :
       BulkCreate(args) /\ UNCHANGED clients
  \/ \E args \in [adminEmail : NotAdmins, id : {1}] : RemoveSubscription(args) /\ UNCHANGED clients
  \/ \E args \in [adminEmail : NotAdmins, subscriptionId : {1}, action : {"viewed"}] :
       Reveal(args) /\ UNCHANGED clients
  \/ \E args \in [adminEmail : NotAdmins, subscriptionId : {SeedCredentialCount + 1},
                   username : {"ops"}, password : {StrCodes("s3cret")}, notes : {NONE}] :
       \E iv \in SeedIVs : CreateCredential(args, iv) /\ UNCHANGED clients
  \/ \E args \in [adminEmail : NotAdmins, id : {1}, username : {"root"},
                   password : {StrCodes("changed")}, notes : {NONE}] :
       \E iv \in SeedIVs : UpdateCredential(args, iv) /\ UNCHANGED clients
  \/ \E args \in [adminEmail : NotAdmins, id : {1}] : RemoveCredential(args) /\ UNCHANGED clients
  \/ \E caller \in Callers :
       CreateCategory([adminEmail |-> caller] @@ NewCategory) /\ UNCHANGED clients
  \/ \E caller \in Callers :
       UpdateCategory([adminEmail |-> caller, id |-> 1] @@ NewCategory) /\ UNCHANGED clients
  \/ \E args \in [adminEmail : Callers, id : {1, Len(SeedCategories) + 1}] :
       RemoveCategory(args) /\ UNCHANGED clients
  \/ \E caller \in Callers :
       CreateCurrency([adminEmail |-> caller] @@ NewCurrency) /\ UNCHANGED clients
  \/ \E caller \in Callers :
       UpdateCurrency([adminEmail |-> caller, id |-> 2] @@ [NewCurrency EXCEPT !.name = "Dollar"])
       /\ UNCHANGED clients
  \/ \E args \in [adminEmail : Callers, id : {2}] : ToggleActive(args) /\ UNCHANGED clients
  \/ \E args \in [adminEmail : Callers, id : {1, 3}] : RemoveCurrency(args) /\ UNCHANGED clients

SpecAuth == InitAuth /\ [][NextAuth]_vars

\* the admin-only mutations
AdminOnly ==
  {"approve", "reject", "requests.remove",
   "subscriptions.create", "subscriptions.update", "subscriptions.bulkCreate",
   "subscriptions.remove",
   "credentials.reveal", "credentials.create", "credentials.update", "credentials.remove",
   "categories.create", "categories.update", "categories.remove",
   "currencies.create", "currencies.update", "currencies.toggleActive", "currencies.remove"}

\* no session email, or an email no stored user has
Unknown(email) == email = "" \/ \A u \in DOMAIN users : users[u].email # email

\* C15: an admin-only mutation called with an empty adminEmail, or one that
\* matches no stored user, fails with an authorization error and leaves every
\* table unchanged.
C15_UnknownCallerRefused ==
  [][(ret'.op \in AdminOnly /\ Unknown(ret'.args.adminEmail)) =>
       /\ ~ret'.ok
       /\ ret'.error \in {"Authentication required", "Admin access required"}
       /\ UNCHANGED tables]_vars

\* after the seed, with a usable key, a caller no user row matches has just been
\* refused the password of a stored credential
C15_Witness ==
  /\ ret.op = "credentials.reveal" /\ ~ret.ok /\ ret.error = "Authentication required"
  /\ ret.args.adminEmail = "eve@company.com"
  /\ DOMAIN users # {}
  /\ \E c \in DOMAIN credentials : credentials[c].subscriptionId = ret.args.subscriptionId
  /\ auditLogs = <<>>

----------------------------------------------------------------------------
(* The request workflow with a scheduler that may refuse every call *)

InitNotify == InitWith({NoKey}, {DateAt(1)})

NextNotify ==
  \/ Seed /\ UNCHANGED clients
  \/ \E schedulerUp \in BOOLEAN :
       NewReqs < MaxNewReqs /\ Submit(BaseRequest, schedulerUp) /\ UNCHANGED clients
  \/ \E args \in ApproveNewInputs \cup ApproveLaterInputs, schedulerUp \in BOOLEAN :
       Approve(args, schedulerUp) /\ UNCHANGED clients
  \/ \E args \in [adminEmail : {Admin}, id : {1, SeedRequestCount + 1},
                   adminNotes : {"Not needed this quarter"}], schedulerUp \in BOOLEAN :
       Reject(args, schedulerUp) /\ UNCHANGED clients

SpecNotify == InitNotify /\ [][NextNotify]_vars

\* the notifications scheduled for a request
NotificationsOf(id) == {n \in scheduled : n.requestId = id}

\* C17: a scheduler that throws does not fail or undo a decision or a
\* submission.  Whatever the scheduler does, a decision of the admin fails
\* only on a request that is not pending (a failed call leaves the request
\* as it was), a decision that succeeded is stored (with the subscription,
\* for an approval), and a valid submission within the limits succeeds and is
\* stored as pending.
C17_SchedulerFailureTolerated ==
  /\ (/\ ret.op \in {"approve", "reject"}
      /\ DOMAIN users # {}
      /\ ret.args.id \in DOMAIN requests) =>
        IF ret.ok
        THEN /\ requests[ret.args.id].status
                  = (IF ret.op = "approve" THEN "approved" ELSE "rejected")
             /\ ret.op = "approve" => ret.value.subscriptionId \in DOMAIN subscriptions
        ELSE requests[ret.args.id].status # "pending"
  /\ (ret.op = "submit" /\ DOMAIN categories # {}) =>
        /\ ret.ok
        /\ ret.value.id \in DOMAIN requests
        /\ requests[ret.value.id].status = "pending"

\* a submitted request has been approved, both calls succeeded, and the
\* scheduler took neither the notification of the submission nor that of the
\* approval
C17_Witness ==
  /\ ret.op = "approve" /\ ret.ok
  /\ ret.args.id = SeedRequestCount + 1
  /\ requests[ret.args.id].status = "approved"
  /\ ret.value.subscriptionId \in DOMAIN subscriptions
  /\ NotificationsOf(ret.args.id) = {}

----------------------------------------------------------------------------
(* Reveals that fail: no such subscription, no credential, not the admin, the
   key unset or too short *)

InitReveal == InitWith({ValidKey}, {DateAt(1)})

NextReveal ==
  \/ Seed /\ UNCHANGED clients
  \/ \E key \in {ValidKey, ShortKey, NoKey} : SetEncryptionKey(key) /\ UNCHANGED clients
  \/ \E args \in [adminEmail : Callers, action : {"viewed"},
                   subscriptionId : {1, SeedCredentialCount + 1, SeedSubscriptionCount + 1}] :
       AuditLogsWritten < MaxAuditLogs /\ Reveal(args) /\ UNCHANGED clients

SpecReveal == InitReveal /\ [][NextReveal]_vars

----------------------------------------------------------------------------
(* The cipher alone: every short plaintext over a few code units, several
   keys, two IVs; a behaviour is one encryption, then decryptions of its
   result *)

MaxPlainLen == 2

\* code units: a letter, a two-byte and a three-byte character, the byte order
\* mark, and the two halves of a surrogate pair
CodeUnits == {97, 233, 8364, 65279, 55357, 56832}

Plaintexts == UNION {[1..n -> CodeUnits] : n \in 0..MaxPlainLen}

\* keys: of 32 characters, longer, with a character of two bytes, of 31
\* characters, of 5, and none
CipherKeys ==
  {ValidKey, ValidKey \o StrCodes("01234567"), SubSeq(ValidKey, 1, 31) \o <<233>>,
   SubSeq(ValidKey, 1, 31), ShortKey, NoKey}

InitCipher == InitWith({NoKey}, {DateAt(1)})

NextCipher ==
  \/ \E plaintext \in Plaintexts, key \in CipherKeys, iv \in IVs :
       ret.op = "none" /\ EncryptCall(plaintext, key, iv) /\ UNCHANGED clients
  \/ \E key \in CipherKeys :
       /\ ret.op = "encrypt" /\ ret.ok
       /\ DecryptCall(ret.value, key, [plaintext |-> ret.args.plaintext, key |-> ret.args.key])
       /\ UNCHANGED clients

SpecCipher == InitCipher /\ [][NextCipher]_vars

\* C19: decrypting what encrypt produced, with the same key of at least 32
\* characters, gives the plaintext back, for every plaintext and IV; with a key
\* shorter than 32 characters encrypt and decrypt fail.
C19_CipherRoundTrip ==
  /\ (ret.op \in {"encrypt", "decrypt"} /\ Len(ret.args.key) < KeyMinLength) => ~ret.ok
  /\ (ret.op = "decrypt" /\ Len(ret.args.key) >= KeyMinLength
        /\ ret.args.key = ret.args.from.key) =>
       ret.ok /\ ret.value = ret.args.from.plaintext


----------------------------------------------------------------------------
(* One import onto the seeded data from a file of one row, of three, of a
   hundred and three or of two hundred and one, with calls of bulkCreate that
   may not reach the backend; an import that stored nothing may be repeated *)

\* a row validateRow accepts and bulkCreate stores
GoodRow == [name |-> "Linear", cost |-> "800", category |-> "software & saas", currency |-> ""]

\* a row validateRow refuses: no name, a negative cost and an unknown category
BadRow == [name |-> "", cost |-> "-5", category |-> "Nope", currency |-> "usd"]

\* a row validateRow accepts and bulkCreate refuses: the cost is above the maximum
CostlyRow == [GoodRow EXCEPT !.cost = "100000001"]

Rows(n) == [k \in 1..n |-> GoodRow]

Files ==
  { <<BadRow>>,
    <<GoodRow, BadRow, CostlyRow>>,
    Rows(BATCH_SIZE) \o <<BadRow, GoodRow, CostlyRow>>,
    Rows(2 * BATCH_SIZE) \o <<GoodRow>> }

InitImport == InitWith({NoKey}, {DateAt(1)})

NextImport ==
  \/ Seed /\ UNCHANGED clients
  \/ \E rows \in Files : HandleFileUpload(rows)
  \/ NewSubs = 0 /\ HandleImport
  \/ \E delivered \in BOOLEAN : ImportBatch(delivered)
  \/ HandleClose

SpecImport == InitImport /\ [][NextImport]_vars

\* a turn of handleImport's loop
BatchStep == importer.running # <<>> /\ importer'.running # importer.running

\* the rows validateRow marks valid
MarkedValid ==
  {validationResults[k].data[1] :
     k \in {j \in 1..Len(importer.rawRows) : validationResults[j].valid}}

\* the batches are made of rows marked valid and have at most 100 rows
BatchesOfValidRows ==
  [][BatchStep =>
       /\ Len(ret'.args.subscriptions) \in 1..BATCH_SIZE
       /\ {ret'.args.subscriptions[k] : k \in 1..Len(ret'.args.subscriptions)}
            \subseteq MarkedValid]_vars

\* an import that ends shows one result for each row marked valid, numbered
\* from 0 in the order of the rows
OneResultPerRow ==
  [][(BatchStep /\ importer'.step = "results") =>
       LET shown == importer'.importResults[1]
       IN /\ Len(shown.results) = Len(ValidRowsOf(validationResults))
          /\ \A k \in 1..Len(shown.results) : shown.results[k].index = k - 1
          /\ shown.total = Len(shown.results)
          /\ shown.succeeded = Cardinality({k \in 1..Len(shown.results) : shown.results[k].success})
          /\ shown.succeeded + shown.failed = shown.total
          /\ shown.succeeded = Len(subscriptions') - Len(subscriptions)
                               + importer.running[1].allResults.succeeded]_vars

\* a failed call leaves the subscriptions of the batches before it stored
EarlierBatchesStored ==
  [][(BatchStep /\ ~ret'.ok) => subscriptions' = subscriptions]_vars

\* the import is over and the dialog shows how it ended
ImportOver ==
  importer.running = <<>> /\ (importer.step = "results" \/ importer.toast = "Import failed")

\* the reference numbers in the list of results the dialog shows
ShownReferences ==
  IF importer.importResults = <<>> THEN {}
  ELSE {importer.importResults[1].results[k].referenceNumber :
          k \in 1..Len(importer.importResults[1].results)}

\* the subscriptions the import stored are in the list of results the dialog
\* shows when the import is over
EarlierResultsShown ==
  ImportOver =>
    \A id \in DOMAIN subscriptions :
      id > SeedSubscriptionCount => subscriptions[id].referenceNumber \in ShownReferences

\* C20: the importer submits only the rows validateRow marked valid, at most
\* 100 in a call of bulkCreate, and shows one result for each submitted row;
\* when the call for a batch fails, the subscriptions of the batches before it
\* stay stored and their results stay in the list shown to the user
C20_FailedBatchKeepsEarlierResults ==
  /\ BatchesOfValidRows
  /\ OneResultPerRow
  /\ EarlierBatchesStored
  /\ []EarlierResultsShown


----------------------------------------------------------------------------
(* Decisions on the two pending requests of the seed, sent while others are
   in flight *)

\* calls sent in all
MaxCalls == 2

Decisions ==
  [op : {"approve"}, args : [adminEmail : {Admin}, id : {1, 2}, adminNotes : {NONE}]]
    \cup [op : {"reject"},
          args : [adminEmail : {Admin}, id : {1, 2}, adminNotes : {"Not needed this quarter"}]]

InitRace == InitWith({NoKey}, {DateAt(1)})

NextRace ==
  \/ Seed /\ UNCHANGED clients
  \/ \E d \in Decisions : Len(inflight) < MaxCalls /\ Send(d.op, d.args)
  \/ \E c \in DOMAIN inflight : Serve(c)

SpecRace == InitRace /\ [][NextRace]_vars

\* two calls each sent before the other was answered
Concurrent(c, d) == c \notin inflight[d].earlier /\ d \notin inflight[c].earlier

\* two answered decisions on one request, sent concurrently while it was
\* pending, and no third decision on it
Raced(c, d) ==
  /\ c # d
  /\ \A e \in DOMAIN inflight \ {c, d} : inflight[e].args.id # inflight[c].args.id
  /\ inflight[c].state = "answered" /\ inflight[d].state = "answered"
  /\ inflight[c].args.id = inflight[d].args.id
  /\ inflight[c].seen = "pending" /\ inflight[d].seen = "pending"
  /\ Concurrent(c, d)

NotPendingError(op) ==
  IF op = "approve" THEN "Can only approve pending requests"
  ELSE "Can only reject pending requests"

\* the subscriptions approve made of the request id
MaterializedFor(id) ==
  {s \in DOMAIN subscriptions :
     s > SeedSubscriptionCount /\ subscriptions[s].name = requests[id].name}

\* the subscription reference numbers taken since the seed
ReferencesConsumed ==
  LET m == ByField(counters, "name", counterName("subscription", today[1]))
  IN IF m = {} THEN 0 ELSE counters[TheOne(m)].value - SeedSubCounter

\* C16: of two decisions on the same pending request that are sent
\* concurrently, whatever the order the backend runs them in, exactly one
\* succeeds and the other fails with the not-pending error; at most one
\* subscription is made of the request and at most one subscription reference
\* number is taken for it
C16_OneDecisionWins ==
  \A c, d \in DOMAIN inflight :
    Raced(c, d) =>
      /\ inflight[c].ok # inflight[d].ok
      /\ inflight[c].ok \/ inflight[c].error = NotPendingError(inflight[c].op)
      /\ inflight[d].ok \/ inflight[d].error = NotPendingError(inflight[d].op)
      /\ Cardinality(MaterializedFor(inflight[c].args.id)) <= 1
      /\ ReferencesConsumed
           = Cardinality(UNION {MaterializedFor(inflight[e].args.id) : e \in DOMAIN inflight})

\* an approve and a reject of one request were sent concurrently, the reject
\* was sent first and the approve was run first
C16_Witness ==
  \E c, d \in DOMAIN inflight :
    /\ Raced(c, d) /\ c < d
    /\ inflight[c].op = "reject" /\ inflight[d].op = "approve"
    /\ inflight[d].ok /\ ~inflight[c].ok

----------------------------------------------------------------------------
(* bulkCreate called directly: lists of 0, 9, 100 and 101 rows, rows that   *)
(* each check of the loop refuses, a currency switched off and on, and the  *)
(* calendar moving into a year that has no counter yet                      *)

DollarRow == With(BaseSubscription, "currencyId", 2)

\* rows the loop refuses, one for each of its checks
FaultyRows ==
  << With(BaseSubscription, "name", "   "),
     With(BaseSubscription, "cost", MaxCost + 1),
     With(BaseSubscription, "nextRenewalDate", "2027-13-01"),
     With(BaseSubscription, "notificationDaysBefore", MaxNotificationDays + 1),
     With(BaseSubscription, "categoryId", 99),
     With(BaseSubscription, "currencyId", 99) >>

\* a list of n rows: every third row is refused, every fifth is in dollars
BulkRows(n) ==
  [i \in 1..n |-> IF i % 3 = 0 THEN FaultyRows[((i \div 3) % Len(FaultyRows)) + 1]
                  ELSE IF i % 5 = 0 THEN DollarRow
                  ELSE BaseSubscription]

\* short lists: an empty one, one of stored and refused rows, one of refused
\* rows only
ShortLists == { <<>>, BulkRows(9), <<FaultyRows[1], FaultyRows[5]>> }

\* a full batch of the import dialog, and a list of one row more
FullLists == { BulkRows(BATCH_SIZE), [i \in 1..(BATCH_SIZE + 1) |-> BaseSubscription] }

\* the lists sent: the full ones after a call of seedDatabase (one that
\* seeded, or one that was refused), the short ones after any other call
BulkLists == IF ret.op = "seedDatabase" THEN FullLists \cup ShortLists ELSE ShortLists

BulkCallInputs == [adminEmail : {Admin}, subscriptions : BulkLists]

InitBulk == InitWith({NoKey}, {DateAt(0)})

\* one storing call in a behaviour, and no two calls in a row
NextBulk ==
  \/ Seed /\ UNCHANGED clients
  \/ AdvanceDate /\ UNCHANGED clients
  \/ \E args \in ToggleInputs : ToggleActive(args) /\ UNCHANGED clients
  \/ \E args \in BulkCallInputs :
       /\ NewSubs <= 0 /\ ret.op # "subscriptions.bulkCreate"
       /\ BulkCreate(args) /\ UNCHANGED clients

SpecBulk == InitBulk /\ [][NextBulk]_vars

\* the value of this year's subscription counter in cs, 0 when it has no row
SubscriptionCounter(cs) ==
  LET m == ByField(cs, "name", counterName("subscription", today[1]))
  IN IF m = {} THEN 0 ELSE cs[TheOne(m)].value

\* the row is one the loop accepts in the present state: a complete row whose
\* currency is active
Accepted(sub) ==
  \/ sub = BaseSubscription
  \/ sub = DollarRow /\ currencies[2].isActive

\* C21: bulkCreate with n <= 100 rows returns exactly n results, one per input
\* index in order, with total = n = succeeded + failed; a row that fails
\* validation inserts no subscription and consumes no reference number while
\* the other rows are still processed, so succeeded is the number of
\* subscriptions inserted and the amount the subscription counter advanced; a
\* call with more than 100 rows is rejected and inserts nothing
C21_BulkCreateAccounts ==
  [][(ret'.op = "subscriptions.bulkCreate" /\ DOMAIN users # {}) =>
       LET rows == ret'.args.subscriptions
           n == Len(rows)
           inserted == DOMAIN subscriptions' \ DOMAIN subscriptions
       IN IF n <= 100
          THEN /\ ret'.ok
               /\ Len(ret'.value.results) = n
               /\ \A i \in 1..n :
                    /\ ret'.value.results[i].index = i - 1
                    /\ (ret'.value.results[i].success <=> Accepted(rows[i]))
                    /\ ret'.value.results[i].success =>
                         \E s \in inserted :
                           subscriptions'[s].referenceNumber
                             = ret'.value.results[i].referenceNumber
               /\ ret'.value.total = n
               /\ ret'.value.total = ret'.value.succeeded + ret'.value.failed
               /\ ret'.value.succeeded
                    = Cardinality({i \in 1..n : ret'.value.results[i].success})
               /\ ret'.value.succeeded = Cardinality(inserted)
               /\ ret'.value.succeeded
                    = SubscriptionCounter(counters') - SubscriptionCounter(counters)
               /\ \A s \in DOMAIN subscriptions : subscriptions'[s] = subscriptions[s]
               /\ \A s, t \in inserted :
                    s # t => subscriptions'[s].referenceNumber # subscriptions'[t].referenceNumber
          ELSE /\ ~ret'.ok
               /\ ret'.error = "Maximum 100 subscriptions per bulk import"
               /\ subscriptions' = subscriptions
               /\ counters' = counters]_vars

\* a call whose list has rows that are stored and rows that are refused
C21_Witness ==
  /\ ret.op = "subscriptions.bulkCreate"
  /\ ret.ok
  /\ ret.value.succeeded > 0
  /\ ret.value.failed > 0
  /\ ret.value.succeeded = NewSubs

----------------------------------------------------------------------------
(* src/lib/bulkImportUtils.ts (kept in tasks/todo.md): autoDetectMapping *)

\* COLUMN_ALIASES, in the order Object.entries gives its fields
COLUMN_ALIASES == <<
  [field |-> "name",
   aliases |-> <<"name", "subscription name", "subscription", "title", "service">>],
  [field |-> "description",
   aliases |-> <<"description", "desc", "details", "notes", "about">>],
  [field |-> "provider",
   aliases |-> <<"provider", "vendor", "company", "supplier", "publisher">>],
  [field |-> "category", aliases |-> <<"category", "type", "group", "cat">>],
  [field |-> "cost", aliases |-> <<"cost", "price", "amount", "fee", "charge", "rate">>],
  [field |-> "currency", aliases |-> <<"currency", "currency code", "curr", "cur">>],
  [field |-> "billingCycle",
   aliases |-> <<"billing cycle", "billing", "cycle", "frequency", "period",
                 "billing period">>],
  [field |-> "nextRenewalDate",
   aliases |-> <<"renewal date", "next renewal", "renewal", "due date", "expiry",
                 "expiry date", "next renewal date">>],
  [field |-> "paymentMethod",
   aliases |-> <<"payment method", "payment", "pay method", "payment type">>],
  [field |-> "status", aliases |-> <<"status", "state", "subscription status">>] >>

\* String.prototype.includes
includes(s, part) ==
  \E i \in 0..(Len(s) - Len(part)) : SubSeq(s, i + 1, i + Len(part)) = part

\* aliases.includes(normalized)
ExactMatch(aliases, normalized) == \E a \in 1..Len(aliases) : aliases[a] = normalized

\* aliases.some(alias => normalized.includes(alias) || alias.includes(normalized))
ContainsMatch(aliases, normalized) ==
  \E a \in 1..Len(aliases) :
    includes(normalized, aliases[a]) \/ includes(aliases[a], normalized)

\* the inner loop: the first field, in the order of COLUMN_ALIASES, that is
\* not used yet and matches exactly or by containment; "skip" when none does
MatchedField(normalized, usedFields) ==
  LET matching ==
        {k \in 1..Len(COLUMN_ALIASES) :
           /\ COLUMN_ALIASES[k].field \notin usedFields
           /\ \/ ExactMatch(COLUMN_ALIASES[k].aliases, normalized)
              \/ ContainsMatch(COLUMN_ALIASES[k].aliases, normalized)}
  IN IF matching = {} THEN "skip"
     ELSE COLUMN_ALIASES[CHOOSE k \in matching : \A l \in matching : k <= l].field

RECURSIVE DetectFrom(_, _, _, _)
\* the outer loop from header i on: [mapping, usedFields]; an entry of mapping
\* is overwritten when a header occurs again
DetectFrom(headers, i, mapping, usedFields) ==
  IF i > Len(headers) THEN [mapping |-> mapping, usedFields |-> usedFields]
  ELSE LET header == headers[i]
           normalized == Trim(toLowerCase(header))
           field == MatchedField(normalized, usedFields)
       IN DetectFrom(headers, i + 1, (header :> field) @@ mapping,
                     IF field = "skip" THEN usedFields ELSE usedFields \cup {field})

\* autoDetectMapping: the mapping, a function of the headers
autoDetectMapping(headers) == DetectFrom(headers, 1, <<>>, {}).mapping

\* a call of autoDetectMapping
AutoDetect(headers) ==
  /\ ret' = Returned("autoDetectMapping", [headers |-> headers], autoDetectMapping(headers))
  /\ UNCHANGED <<tables, issued, env, clock>>

----------------------------------------------------------------------------
(* autoDetectMapping on header rows of one or two columns *)

\* columns of a header row
MaxHeaders == 2

\* header cells: aliases in other cases and with blanks around them, aliases
\* that contain an alias of another field, and cells that are no alias
HeaderCells ==
  {" Name ", "Service", "Notes", "Vendor", "Type", "COST", "Price", "Currency Code",
   "Billing", "Renewal Date", "Payment Type", "Status", "Subscription Status", "Owner"}

HeaderRows == UNION {[1..n -> HeaderCells] : n \in 1..MaxHeaders}

InitMapping == InitWith({NoKey}, {DateAt(1)})

\* one header row is read in a behaviour
NextMapping ==
  \E headers \in HeaderRows : ret.op = "none" /\ AutoDetect(headers) /\ UNCHANGED clients

SpecMapping == InitMapping /\ [][NextMapping]_vars

\* the fields the headers before the i-th have claimed
ClaimedBefore(headers, i) == DetectFrom(SubSeq(headers, 1, i - 1), 1, <<>>, {}).usedFields

\* the fields the cell is an alias of, whatever its case and the blanks around it
AliasOf(cell) ==
  {COLUMN_ALIASES[k].field : k \in {l \in 1..Len(COLUMN_ALIASES) :
      \E a \in 1..Len(COLUMN_ALIASES[l].aliases) :
        COLUMN_ALIASES[l].aliases[a] = Trim(toLowerCase(cell))}}

\* C22: autoDetectMapping prefers exact alias matches over substring
\* containment: a header that equals (case-insensitively, trimmed) an alias of
\* a field no earlier header has claimed is mapped to that field, even when it
\* also contains, or is contained in, an alias of a different field
C22_ExactAliasPreferred ==
  ret.op = "autoDetectMapping" =>
    \A i \in 1..Len(ret.args.headers) :
      \A field \in AliasOf(ret.args.headers[i]) \ ClaimedBefore(ret.args.headers, i) :
        (\A j \in (i + 1)..Len(ret.args.headers) : ret.args.headers[j] # ret.args.headers[i])
          => ret.value[ret.args.headers[i]] = field

----------------------------------------------------------------------------
(* validateRow on rows with a cell for each of the eight validated fields,  *)
(* against the seeded categories and currencies, with USD switched off and  *)
(* on                                                                       *)

\* the cells of each field: ones its rule accepts and ones it refuses
Cells ==
  [name |-> {"Linear", "  "},
   cost |-> {" 800 ", "0"},
   category |-> {"software & saas", "Nope", ""},
   currency |-> {"", "usd", "xyz"},
   billingCycle |-> {"", "Annual", "weekly", "constructor"},
   paymentMethod |-> {"Credit Card", "cash"},
   status |-> {"Canceled", "done"},
   nextRenewalDate |-> {"2027-01-15", "soon"}]

ValidatedRows ==
  [name : Cells.name, cost : Cells.cost, category : Cells.category,
   currency : Cells.currency, billingCycle : Cells.billingCycle,
   paymentMethod : Cells.paymentMethod, status : Cells.status,
   nextRenewalDate : Cells.nextRenewalDate]

\* a call of validateRow with the categories and currencies stored
ValidateCall(row) ==
  /\ ret' = Returned("validateRow", [row |-> row], validateRow(row))
  /\ UNCHANGED <<tables, issued, env, clock>>

InitValidate == InitWith({NoKey}, {DateAt(1)})

\* rows are validated after the seed or a change of a currency
NextValidate ==
  \/ Seed /\ UNCHANGED clients
  \/ \E args \in ToggleInputs : ToggleActive(args) /\ UNCHANGED clients
  \/ \E row \in ValidatedRows :
       /\ ret.op \in {"seedDatabase", "currencies.toggleActive"} /\ ret.ok
       /\ ValidateCall(row) /\ UNCHANGED clients

SpecValidate == InitValidate /\ [][NextValidate]_vars

\* the values the alias tables of section 4.6 recognise, in lower case
RecognisedCycles ==
  {"monthly", "month", "quarterly", "quarter", "half-yearly", "half yearly", "semi-annual",
   "semi-annually", "yearly", "year", "annual", "annually"}

RecognisedMethods ==
  {"credit card", "credit_card", "creditcard", "credit", "debit card", "debit_card",
   "debitcard", "debit", "bank transfer", "bank_transfer", "banktransfer", "bank", "wire",
   "upi", "other"}

RecognisedStatuses == {"active", "expired", "cancelled", "canceled", "pending"}

ValidatedFields ==
  {"name", "cost", "category", "currency", "billingCycle", "paymentMethod", "status",
   "nextRenewalDate"}

\* the rule of a field fails for the row: the rules of the validator, for
\* the cells of the model
RuleFails(f, row) ==
  LET cell == Trim(toLowerCase(row[f]))
  IN CASE f = "name" -> cell = ""
       [] f = "cost" -> ~(IsNumber(cell) /\ NumberOf(cell) > 0)
       [] f = "category" ->
            \A c \in DOMAIN categories : toLowerCase(categories[c].name) # cell
       [] f = "currency" ->
            \A c \in DOMAIN currencies :
              ~(toLowerCase(currencies[c].code) = (IF cell = "" THEN "inr" ELSE cell)
                  /\ currencies[c].isActive)
       [] f = "billingCycle" -> cell # "" /\ cell \notin RecognisedCycles
       [] f = "paymentMethod" -> cell # "" /\ cell \notin RecognisedMethods
       [] f = "status" -> cell # "" /\ cell \notin RecognisedStatuses
       [] f = "nextRenewalDate" -> cell # "" /\ cell # "2027-01-15"

\* C23: validateRow reports all failing fields in one pass: errors has an
\* entry for every one of name, cost, category, currency, billingCycle,
\* paymentMethod, status and nextRenewalDate whose rule fails, valid is false
\* exactly when errors is non-empty, and data is null exactly when valid is
\* false
C23_AllErrorsReported ==
  ret.op = "validateRow" =>
    /\ ret.value.errors = {f \in ValidatedFields : RuleFails(f, ret.args.row)}
    /\ (ret.value.valid <=> ret.value.errors = {})
    /\ (ret.value.data = <<>> <=> ~ret.value.valid)

----------------------------------------------------------------------------
(* The currencies: update, toggleActive and remove by the admin on the      *)
(* seeded currencies                                                        *)

\* updates of INR and of USD: the rate kept or changed, active or not
CurrencyUpdates ==
  [adminEmail : {Admin}, id : {1, 2}, name : {"Rupee"}, symbol : {"Rs"},
   exchangeRate : {10, 840}, isActive : BOOLEAN]

\* INR, USD, GBP (no seeded row uses it) and a currency that does not exist
CurrencyIds == [adminEmail : {Admin}, id : {1, 2, 4, 9}]

InitBase == InitWith({NoKey}, {DateAt(1)})

NextBase ==
  \/ Seed /\ UNCHANGED clients
  \/ \E args \in CurrencyUpdates : UpdateCurrency(args) /\ UNCHANGED clients
  \/ \E args \in CurrencyIds : ToggleActive(args) /\ UNCHANGED clients
  \/ \E args \in CurrencyIds : RemoveCurrency(args) /\ UNCHANGED clients

SpecBase == InitBase /\ [][NextBase]_vars

\* C24: the base currency is protected: once an INR currency exists and is
\* active, no sequence of update, toggleActive and remove calls by an admin
\* makes it inactive or removes it
C24_BaseCurrencyProtected ==
  [][\A c \in DOMAIN currencies :
       (currencies[c].code = "INR" /\ currencies[c].isActive) =>
          /\ c \in DOMAIN currencies'
          /\ currencies'[c].code = "INR"
          /\ currencies'[c].isActive]_vars

----------------------------------------------------------------------------
(* src/pages/admin/Vault/index.tsx: the reveal toggle and the countdown.
   A countdown is a number of seconds that the interval lowers by 0.1; it is
   kept as its tenths, and above says that the stored double exceeds them:
   the hundredth subtraction from 10 leaves 1.879e-14, not 0 *)

Ten == [tenths |-> 100, above |-> FALSE]

Zero == [tenths |-> 0, above |-> FALSE]

\* v - 0.1
LessTenth(v) == [tenths |-> v.tenths - 1, above |-> v.tenths - 1 = 0]

\* v > 0
Positive(v) == v.tenths > 0 \/ (v.tenths = 0 /\ v.above)

\* !v
Falsy(v) == v.tenths = 0 /\ ~v.above

\* a record of the page without the key id
Without(record, id) == [k \in DOMAIN record \ {id} |-> record[k]]

\* a record of the page with the key id set
WithKey(record, id, value) == [k \in DOMAIN record \cup {id} |-> IF k = id THEN value ELSE record[k]]

\* the callback of setInterval, every 100 ms: the countdown of every revealed
\* id is lowered, and kept only while it is above 0.  The interval belongs to
\* the render whose effects have run
CountdownInterval ==
  LET prev == vault.countdowns
      remaining(id) == LessTenth(IF id \in DOMAIN prev /\ ~Falsy(prev[id]) THEN prev[id] ELSE Ten)
      kept == {id \in vault.revealedCredentials : Positive(remaining(id))}
  IN /\ ~vault.stale
     /\ vault' = [vault EXCEPT !.countdowns = [id \in kept |-> remaining(id)],
                               !.stale = TRUE]
     /\ UNCHANGED <<tables, issued, env, clock, ret, inflight, importer, accepted>>

\* the second useEffect, after a render with new revealedCredentials or
\* countdowns: a revealed id with no countdown gets 10, and an id whose
\* countdown is 0 or less is hidden
AutoHideEffect ==
  LET countdowns == vault.countdowns
      missing == {id \in vault.revealedCredentials :
                    id \notin DOMAIN countdowns \/ Falsy(countdowns[id])}
      expired == {id \in DOMAIN countdowns : ~Positive(countdowns[id])}
  IN /\ vault.stale
     /\ vault' =
          [revealedCredentials |-> vault.revealedCredentials \ expired,
           revealedData |-> [id \in DOMAIN vault.revealedData \ expired |->
                               vault.revealedData[id]],
           countdowns |-> [id \in DOMAIN countdowns \cup missing |->
                             IF id \in missing THEN Ten ELSE countdowns[id]],
           stale |-> missing # {} \/ expired # {},
           toast |-> IF expired # {} THEN "Credential hidden for security"
                     ELSE vault.toast]
     /\ UNCHANGED <<tables, issued, env, clock, ret, inflight, importer, accepted>>

\* toggleReveal, with the answer of credentials.reveal
ToggleReveal(credentialId, subscriptionId) ==
  IF credentialId \in vault.revealedCredentials
  THEN /\ vault' = [vault EXCEPT
                      !.revealedCredentials = @ \ {credentialId},
                      !.countdowns = WithKey(@, credentialId, Zero),
                      !.revealedData = Without(@, credentialId),
                      !.stale = TRUE]
       /\ UNCHANGED <<tables, issued, env, clock, ret, inflight, importer, accepted>>
  ELSE /\ Reveal([adminEmail |-> SessionUser.email, subscriptionId |-> subscriptionId,
                  action |-> "viewed"])
       /\ vault' =
            IF ret'.ok
            THEN [vault EXCEPT
                    !.revealedData = WithKey(@, credentialId,
                                             [username |-> ret'.value.username,
                                              password |-> ret'.value.password]),
                    !.revealedCredentials = @ \cup {credentialId},
                    !.countdowns = WithKey(@, credentialId, Ten),
                    !.stale = TRUE,
                    !.toast = "Credential revealed (auto-hides in 10s)"]
            ELSE [vault EXCEPT !.toast = "Failed to reveal credential"]
       /\ UNCHANGED <<inflight, importer, accepted>>

\* the card the admin clicks: the seeded credential of subscription 1
RevealCards == { <<1, 1>> }

InitVaultPage == InitWith({ValidKey}, {DateAt(1)})

\* the page is open before and after the database is seeded; before, the
\* call of reveal fails
NextVaultPage ==
  \/ DOMAIN categories = {} /\ Seed /\ UNCHANGED clients
  \/ \E card \in RevealCards :
       /\ \/ card[1] \in vault.revealedCredentials
          \/ AuditLogsWritten < MaxAuditLogs
       /\ ToggleReveal(card[1], card[2])
  \/ CountdownInterval
  \/ AutoHideEffect

SpecVaultPage == InitVaultPage /\ [][NextVaultPage]_vars

\* the browser runs a pending effect, and fires the interval of a page that
\* stays rendered
FairVaultPage ==
  SpecVaultPage /\ WF_vault(CountdownInterval) /\ WF_vault(AutoHideEffect)

\* C25: a credential that is revealed on the Vault page is hidden again by the
\* countdown alone: whenever its id is in revealedCredentials, a later state
\* has the id out of revealedCredentials and its plaintext out of revealedData
C25_RevealedIsHidden ==
  \A card \in RevealCards :
    (card[1] \in vault.revealedCredentials)
      ~> (card[1] \notin vault.revealedCredentials /\ card[1] \notin DOMAIN vault.revealedData)

----------------------------------------------------------------------------
(* The submissions accepted within an hour: the clock moves by half windows
   while requests arrive *)

\* requests submitted while the clock moves through the half windows
MaxHourReqs == 7

\* a call of submit as the function log records it
LoggedSubmit(args) ==
  /\ Submit(args, TRUE)
  /\ accepted' = IF ret'.ok
                 THEN Append(accepted, [email |-> Trim(toLowerCase(args.requesterEmail)),
                                        at |-> now])
                 ELSE accepted
  /\ UNCHANGED <<inflight, importer, vault>>

InitHour == InitWith({NoKey}, {DateAt(1)})

NextHour ==
  \/ Seed /\ UNCHANGED clients
  \/ Tick /\ UNCHANGED clients
  \/ \E args \in {BaseRequest} : NewReqs < MaxHourReqs /\ LoggedSubmit(args)

SpecHour == InitHour /\ [][NextHour]_vars

\* the same with many requesters, who take turns as in SpecBusy: the clock
\* moves after the first request and after the hundredth
MaxCrowdReqs == RATE_LIMIT_GLOBAL + 2

InitCrowd == InitWith({NoKey}, {DateAt(1)})

NextCrowd ==
  \/ Seed /\ UNCHANGED clients
  \/ NewReqs \in {1, RATE_LIMIT_GLOBAL} /\ Tick /\ UNCHANGED clients
  \/ \E args \in {With(BaseRequest, "requesterEmail", Requester(Turn))} :
       NewReqs < MaxCrowdReqs /\ LoggedSubmit(args)

SpecCrowd == InitCrowd /\ [][NextCrowd]_vars

\* the accepted submissions of the hour that starts with the k-th
WithinHourOf(k) ==
  {j \in DOMAIN accepted :
     accepted[j].at >= accepted[k].at /\ accepted[j].at < accepted[k].at + RATE_LIMIT_WINDOW}

\* no hour holds more than 5 accepted submissions of one email
AcceptedPerEmail ==
  \A k \in DOMAIN accepted :
    Cardinality({j \in WithinHourOf(k) : accepted[j].email = accepted[k].email})
      <= RATE_LIMIT_PER_EMAIL

\* no hour holds more than 100 accepted submissions
AcceptedOverall ==
  \A k \in DOMAIN accepted : Cardinality(WithinHourOf(k)) <= RATE_LIMIT_GLOBAL

\* C26: in any interval of one hour at most RATE_LIMIT_PER_EMAIL submit calls
\* of one requester email are accepted, and at most RATE_LIMIT_GLOBAL submit
\* calls overall (an interval that holds more holds them from its first
\* accepted call on, so the hours that start with an accepted call are checked)
C26_AcceptedPerHour == AcceptedPerEmail /\ AcceptedOverall

----------------------------------------------------------------------------
(* convex/crons.ts and convex/actions/cronHandlers.ts: the daily renewal check.
   Times are minutes since 2025-01-01T00:00Z *)

MinutesPerDay == 24 * 60

\* crons.daily: hourUTC 9, minuteUTC 0
CronMinute == 9 * 60

RECURSIVE DaysBeforeYear(_)
\* the days of the years from 2025 to the year before y
DaysBeforeYear(y) ==
  IF y <= 2025 THEN 0 ELSE DaysBeforeYear(y - 1) + (IF IsLeap(y - 1) THEN 366 ELSE 365)

RECURSIVE DaysBeforeMonth(_, _)
\* the days of the months of year y before month m
DaysBeforeMonth(y, m) == IF m <= 1 THEN 0 ELSE DaysBeforeMonth(y, m - 1) + DaysInMonth(y, m - 1)

\* the days from 2025-01-01 to the date
DayNumber(date) == DaysBeforeYear(date[1]) + DaysBeforeMonth(date[1], date[2]) + date[3] - 1

\* new Date(s) of the ISO form YYYY-MM-DD, which is midnight UTC
DateOf(s) == <<NumberOf(SubSeq(s, 1, 4)), TwoDigits(SubSeq(s, 6, 7)), TwoDigits(SubSeq(s, 9, 10))>>

\* new Date(s).getTime()
getTime(s) == DayNumber(DateOf(s)) * MinutesPerDay

\* Math.ceil(a / b), b > 0
Ceil(a, b) == -((-a) \div b)

\* listUpcomingRenewals at the time at: the ids of the active subscriptions
\* that renew from now to now + days
listUpcomingRenewals(days, at) ==
  {s \in DOMAIN subscriptions :
     /\ subscriptions[s].status = "active"
     /\ getTime(subscriptions[s].nextRenewalDate) >= at
     /\ getTime(subscriptions[s].nextRenewalDate) <= at + days * MinutesPerDay}

\* checkRenewals, run by the cron at 09:00 UTC of today; reminders: the calls
\* of sendRenewalReminder, mailUp: they do not throw
CheckRenewals(mailUp) ==
  LET at == DayNumber(today) * MinutesPerDay + CronMinute
      renewals == listUpcomingRenewals(14, at)
      daysUntil(s) == Ceil(getTime(subscriptions[s].nextRenewalDate) - at, MinutesPerDay)
      due == {s \in renewals :
                /\ subscriptions[s].notificationEnabled
                /\ daysUntil(s) = subscriptions[s].notificationDaysBefore}
  IN /\ ret' =
          IF env.ADMIN_EMAIL = ""
          THEN Returned("checkRenewals", NoArgs,
                        [sent |-> 0, skipped |-> Cardinality(renewals),
                         total |-> Cardinality(renewals), reminders |-> {}])
          ELSE Returned("checkRenewals", NoArgs,
                        [sent |-> IF mailUp THEN Cardinality(due) ELSE 0,
                         total |-> Cardinality(renewals),
                         reminders |-> {[subscription |-> s,
                                         renewalDate |-> subscriptions[s].nextRenewalDate,
                                         recipientEmail |-> env.ADMIN_EMAIL,
                                         daysUntilRenewal |-> daysUntil(s)] : s \in due}])
     /\ UNCHANGED <<tables, issued, env, clock>>

\* the deployment's ADMIN_EMAIL is set
SetAdminEmail(email) ==
  /\ env.ADMIN_EMAIL # email
  /\ env' = [env EXCEPT !.ADMIN_EMAIL = email]
  /\ ret' = [op |-> "env", args |-> NoArgs, ok |-> TRUE, error |-> NONE, value |-> NONE]
  /\ UNCHANGED <<tables, issued, clock>>

\* midnight passes
NextDay ==
  /\ today' = MakeDate(today[1], today[2], today[3] + 1)
  /\ now' = now + MinutesPerDay
  /\ ret' = [op |-> "clock", args |-> NoArgs, ok |-> TRUE, error |-> NONE, value |-> today']
  /\ UNCHANGED <<tables, issued, env>>

\* the day the model starts on, 365 days before BaseSubscription renews, and
\* the days it runs for
FirstDay == <<2026, 1, 15>>

MaxDays == 365

\* the reminder days of the subscriptions created, and one with reminders off
ReminderDays == {0, 1, 14, 15, 365}

ReminderInputs ==
  {[adminEmail |-> Admin, sub |-> With(BaseSubscription, "notificationDaysBefore", d)] :
     d \in ReminderDays}
    \cup {[adminEmail |-> Admin, sub |-> With(BaseSubscription, "notificationEnabled", FALSE)]}

InitReminder == InitWith({NoKey}, {FirstDay})

\* the run of today has returned
RanToday == ret.op = "checkRenewals"

\* the data are set up on the first day, before the day's run; every day has
\* one run
NextReminder ==
  \/ today = FirstDay /\ ~RanToday /\ Seed /\ UNCHANGED clients
  \/ \E email \in {DefaultAdminEmail} :
       today = FirstDay /\ ~RanToday /\ SetAdminEmail(email) /\ UNCHANGED clients
  \/ \E args \in ReminderInputs :
       /\ today = FirstDay /\ ~RanToday /\ NewSubs <= 0
       /\ CreateSubscription(args) /\ UNCHANGED clients
  \/ \E mailUp \in BOOLEAN : ~RanToday /\ CheckRenewals(mailUp) /\ UNCHANGED clients
  \/ RanToday /\ DayNumber(today) < DayNumber(FirstDay) + MaxDays /\ NextDay /\ UNCHANGED clients

SpecReminder == InitReminder /\ [][NextReminder]_vars

\* the day of the run is d days before the subscription renews
DaysBefore(s, d) == DayNumber(DateOf(subscriptions[s].nextRenewalDate)) - DayNumber(today) = d

\* the reminders of the run for the subscription
RemindersFor(s) == {r \in ret.value.reminders : r.subscription = s}

\* the run of today sent exactly one reminder for every active subscription
\* with notifications enabled that renews in notificationDaysBefore days, when
\* that number is among days
RemindedOn(days) ==
  (ret.op = "checkRenewals" /\ env.ADMIN_EMAIL # "") =>
    \A s \in DOMAIN subscriptions :
      (/\ subscriptions[s].status = "active"
       /\ subscriptions[s].notificationEnabled
       /\ subscriptions[s].notificationDaysBefore \in days
       /\ DaysBefore(s, subscriptions[s].notificationDaysBefore))
        => Cardinality(RemindersFor(s)) = 1

\* C27: with ADMIN_EMAIL set, the daily run on the day that is
\* notificationDaysBefore days before nextRenewalDate sends exactly one
\* reminder for an active subscription with notifications enabled, for every
\* notificationDaysBefore from 0 to 365
C27_ReminderOnConfiguredDay == RemindedOn(0..MaxNotificationDays)

----------------------------------------------------------------------------
(* Seeding again: the admin deletes the subscriptions, the requests and the
   categories, lowest id first, the year may pass, and seedDatabase is run
   again *)

\* the call that removes the row with the lowest id, if there is a row
LowestOf(table) ==
  {[adminEmail |-> Admin, id |-> i] : i \in {j \in DOMAIN table : \A k \in DOMAIN table : j <= k}}

InitReseed == InitWith({NoKey}, {DateAt(1)})

NextReseed ==
  \/ Seed /\ UNCHANGED clients
  \/ AdvanceDate /\ UNCHANGED clients
  \/ \E args \in LowestOf(subscriptions) : RemoveSubscription(args) /\ UNCHANGED clients
  \/ \E args \in LowestOf(requests) : RemoveRequest(args) /\ UNCHANGED clients
  \/ \E args \in LowestOf(categories) : RemoveCategory(args) /\ UNCHANGED clients

SpecReseed == InitReseed /\ [][NextReseed]_vars

\* some row of a table that seedDatabase fills is stored
SeededDataStored ==
  \E table \in {categories, currencies, users, counters, subscriptions, credentials, requests} :
    DOMAIN table # {}

\* no two rows of the table have the same value of the field
NoTwoWith(table, field) ==
  \A i, j \in DOMAIN table : table[i][field] = table[j][field] => i = j

\* C28: seedDatabase takes effect at most once.  A call made while a row of
\* categories, currencies, users, counters, subscriptions, credentials or
\* requests is stored fails and changes nothing; so at every state no two
\* currencies have the same code, no two users the same email and no two
\* counters the same name
C28_SeedTakesEffectOnce ==
  /\ [](/\ NoTwoWith(currencies, "code")
        /\ NoTwoWith(users, "email")
        /\ NoTwoWith(counters, "name"))
  /\ [][(ret'.op = "seedDatabase" /\ SeededDataStored) =>
          (~ret'.ok /\ UNCHANGED tables)]_vars

----------------------------------------------------------------------------
(* References between the tables: subscriptions and requests are created,
   moved and removed while the admin deletes a category and a currency *)

\* a subscription in GBP, which no seeded row uses
PoundSubscription == With(BaseSubscription, "currencyId", 4)

\* a request in GBP for the category of the seeded subscription 7
PoundRequest == With(With(BaseRequest, "currencyId", 4), "categoryId", 3)

\* subscription 7 is moved to the category and the currency of BaseSubscription,
\* and back to category 3
MoveInputs ==
  { [adminEmail |-> Admin, id |-> 7, sub |-> BaseSubscription],
    [adminEmail |-> Admin, id |-> 7, sub |-> With(BaseSubscription, "categoryId", 3)] }

InitIntegrity == InitWith({ValidKey}, {DateAt(1)})

NextIntegrity ==
  \/ Seed /\ UNCHANGED clients
  \/ \E args \in {[adminEmail |-> Admin, sub |-> PoundSubscription]} :
       NewSubs < MaxNewSubs /\ CreateSubscription(args) /\ UNCHANGED clients
  \/ \E args \in MoveInputs : UpdateSubscription(args) /\ UNCHANGED clients
  \/ \E args \in [adminEmail : {Admin}, id : {1, 7, SeedSubscriptionCount + 1}] :
       RemoveSubscription(args) /\ UNCHANGED clients
  \/ \E args \in {PoundRequest} : NewReqs < MaxNewReqs /\ Submit(args, TRUE) /\ UNCHANGED clients
  \/ \E args \in [adminEmail : {Admin}, id : {SeedRequestCount + 1}, adminNotes : {NONE}] :
       NewSubs < MaxNewSubs /\ Approve(args, TRUE) /\ UNCHANGED clients
  \/ \E args \in [adminEmail : {Admin}, id : {SeedRequestCount + 1}] :
       RemoveRequest(args) /\ UNCHANGED clients
  \/ \E args \in [adminEmail : {Admin}, id : {3}] : RemoveCategory(args) /\ UNCHANGED clients
  \/ \E args \in [adminEmail : {Admin}, id : {4}] : RemoveCurrency(args) /\ UNCHANGED clients
  \/ \E args \in [adminEmail : {Admin}, subscriptionId : {7}, username : {"ops"},
                  password : {StrCodes("s3cret<>")}, notes : {NONE}], iv \in SeedIVs :
       /\ \/ NewCreds < MaxNewCreds
          \/ ByField(credentials, "subscriptionId", args.subscriptionId) # {}
       /\ CreateCredential(args, iv)
       /\ UNCHANGED clients

SpecIntegrity == InitIntegrity /\ [][NextIntegrity]_vars

\* C29: every stored subscription and every stored request has a categoryId and
\* a currencyId of stored rows, and every stored credential has the
\* subscriptionId of a stored subscription
C29_ReferencesResolve ==
  /\ \A s \in DOMAIN subscriptions :
       /\ subscriptions[s].categoryId \in DOMAIN categories
       /\ subscriptions[s].currencyId \in DOMAIN currencies
  /\ \A r \in DOMAIN requests :
       /\ requests[r].categoryId \in DOMAIN categories
       /\ requests[r].currencyId \in DOMAIN currencies
  /\ \A c \in DOMAIN credentials : credentials[c].subscriptionId \in DOMAIN subscriptions

\* subscription 7 was removed with the credential created for it, and the
\* deletion of its category, which a stored request still uses, has just been
\* refused
C29_Witness ==
  /\ ret.op = "categories.remove" /\ ~ret.ok
  /\ ret.error = "Cannot delete category that is in use by subscription requests"
  /\ 7 \notin DOMAIN subscriptions /\ nextId["credentials"] > SeedCredentialCount
  /\ \A c \in DOMAIN credentials : c <= SeedCredentialCount

----------------------------------------------------------------------------
(* Subscriptions and the activity of their currency: USD is switched off and
   on while subscriptions in USD are created, imported and approved *)

DollarSubscription == With(BaseSubscription, "currencyId", 2)

\* the seeded pending request 1, which is in USD, and the submitted one
DollarApprovals ==
  [adminEmail : {Admin}, id : {1, SeedRequestCount + 1}, adminNotes : {NONE}]

\* USD is renamed, and switched off or left on
DollarUpdates ==
  [adminEmail : {Admin}, id : {2}, name : {"Dollar"}, symbol : {"$"}, exchangeRate : {840},
   isActive : BOOLEAN]

InitActive == InitWith({NoKey}, {DateAt(1)})

NextActive ==
  \/ Seed /\ UNCHANGED clients
  \/ \E args \in ToggleInputs : ToggleActive(args) /\ UNCHANGED clients
  \/ \E args \in DollarUpdates : UpdateCurrency(args) /\ UNCHANGED clients
  \/ \E args \in {With(BaseRequest, "currencyId", 2)} :
       NewReqs < MaxNewReqs /\ Submit(args, TRUE) /\ UNCHANGED clients
  \/ \E args \in DollarApprovals :
       NewSubs < MaxNewSubs /\ Approve(args, TRUE) /\ UNCHANGED clients
  \/ \E args \in {[adminEmail |-> Admin, sub |-> DollarSubscription]} :
       NewSubs < MaxNewSubs /\ CreateSubscription(args) /\ UNCHANGED clients
  \/ \E args \in {[adminEmail |-> Admin,
                   subscriptions |-> <<DollarSubscription, BaseSubscription>>]} :
       NewSubs + Len(args.subscriptions) <= MaxNewSubs /\ BulkCreate(args) /\ UNCHANGED clients

SpecActive == InitActive /\ [][NextActive]_vars

\* the subscriptions the step of one of the operations inserts are in a
\* currency that is active
InsertedInActiveCurrency(ops) ==
  ret'.op \in ops =>
    \A s \in DOMAIN subscriptions' \ DOMAIN subscriptions :
      /\ subscriptions'[s].currencyId \in DOMAIN currencies
      /\ currencies[subscriptions'[s].currencyId].isActive

\* C30: a subscription that subscriptions.create, subscriptions.bulkCreate or
\* subscriptionRequests.approve inserts refers to a currency that is active
\* when the row is inserted, also when the currency was switched off or
\* updated after the request was submitted
C30_CreatedInActiveCurrency ==
  [][InsertedInActiveCurrency({"subscriptions.create", "subscriptions.bulkCreate",
                               "approve"})]_vars

====
